---- MODULE Spec2Model ----
(***************************************************************************)
(* Masternode payment election: a model of src/src/masternode-payments.cpp *)
(* (CMasternodePayments, CMasternodeBlockPayees, CMasternodePaymentWinner, *)
(* CMasternodePaymentDB, IsBlockPayeeValid, FillBlockPayee).               *)
(*                                                                         *)
(* Spec       the election store driven by inbound votes, local vote       *)
(*            production, pruning and tip changes.                         *)
(* SpecPay    reward transactions built (FillBlockPayee) and checked       *)
(*            (IsTransactionValid) against a tally of the next height.     *)
(* SpecPayee  IsBlockPayeeValid deciding on the blocks that arrive.        *)
(* SpecValue  IsBlockValueValid deciding on the blocks that arrive.        *)
(* SpecAgain  the tally check repeated while the sporks change.            *)
(* SpecDb     mnpayments.dat written, damaged and read back.               *)
(* SpecThreads the operations run by concurrent threads under the locks    *)
(*            cs_main, cs_mapMasternodePayeeVotes, cs_mapMasternodeBlocks  *)
(*            and cs_vecPayments.                                          *)
(* SpecWindow the window check of the handler on heights around its edges. *)
(* SpecRelay  inbound votes relayed, pruned and received again.             *)
(* SpecSync   the votes of SpecRelay served to a syncing peer.              *)
(* SpecProduce one ProcessBlock at a time, the answers of the node and its   *)
(*            collaborators held while it runs.                            *)
(* SpecInbound one mnw message at a time, the answers of the registry, the  *)
(*            sync state and cs_main held while the handler runs on it.    *)
(***************************************************************************)
EXTENDS Integers, Sequences, FiniteSets, TLC

VARIABLES
    mapMasternodePayeeVotes,  \* votes_by_hash: the stored votes (a vote is its own hash key)
    mapMasternodeBlocks,      \* tallies_by_height: height -> vecPayments
    nLastBlockHeight,         \* last height ProcessBlock produced votes for
    tipHeight,                \* chainActive.Tip()->nHeight
    fileDat,                  \* mnpayments.dat
    txNew,                    \* the coinbase/coinstake being built or validated
    sporks,                   \* the sporks that are active
    ret,                      \* the last operation: its name, inputs and result
    threads,                  \* the threads inside the subsystem and the locks they hold
    vRecv,                    \* the call in progress: the mnw message a peer has sent or
                              \* the height ProcessBlock is asked for, and what the
                              \* collaborators will answer while it is handled
    vInventoryToSend          \* the winner inventory relayed to the peers: hash -> times

vars == <<mapMasternodePayeeVotes, mapMasternodeBlocks, nLastBlockHeight, tipHeight,
          fileDat, txNew, sporks, ret, threads, vRecv, vInventoryToSend>>

---------------------------------------------------------------------------
(* Program constants *)

MNPAYMENTS_SIGNATURES_REQUIRED == 6
MNPAYMENTS_SIGNATURES_TOTAL == 10
LevelMin == 1
LevelMax == 3
HorizonFloor == 1000
FutureWindow == 20
RankOffset == 100

(* Bounds of the model *)

\* the election store is filled up to this many votes
MaxVotes == 2

Levels == LevelMin..LevelMax
\* collateral references of the voting masternodes
Voters == {1, 2}
\* activeMasternode.vin: this node's own collateral reference
ActiveVin == 1
\* collateral scripts of the registry's masternodes; the one paid at s has vin s
Scripts == {1, 2, 3}
\* payees and levels named in the votes of peers
PeerScripts == {1, 2}
MsgLevels == {LevelMax}
\* tip heights the chain moves between: a block is connected, or disconnected again
TipValues == {5000, 5001}
\* heights named in votes: the lower edge of the horizon at tip 5000, a height
\* ten blocks ahead, and the upper edge of the window at tip 5001
VoteHeights == {4000, 5010, 5021}
\* ranks GetMasternodeRank reports: unknown, the edges of [1, 10] and (10, 20], beyond
Ranks == {-1, 10, 11, 20, 21}
\* sizes the registry reports (mnodeman.size(), CountEnabled(level))
MnCounts == {800, 801}

Max(a, b) == IF a >= b THEN a ELSE b
Min(a, b) == IF a <= b THEN a ELSE b

\* int(n * 1.25) for n >= 0
Times125(n) == (n * 5) \div 4

\* int(h - n * 1.25): the double is truncated toward zero
TruncSub125(h, n) ==
    LET q == 4 * h - 5 * n
    IN  IF q >= 0 THEN q \div 4 ELSE -((-q) \div 4)

---------------------------------------------------------------------------
(* CMasternodePaymentWinner and CMasternodeBlockPayees *)

Winner(vin, h, payee, level) ==
    [vinMasternode |-> vin, nBlockHeight |-> h, payee |-> payee,
     payeeLevel |-> level, payeeVin |-> payee]

Payee(level, script, vin, n) ==
    [scriptPubKey |-> script, mnlevel |-> level, payeeVin |-> vin, nVotes |-> n]

\* CMasternodeBlockPayees::AddPayee: find the record of (level, script) and add the
\* increment, else append a new record
AddPayee(vec, level, script, vin, inc) ==
    IF \E i \in 1..Len(vec) : vec[i].mnlevel = level /\ vec[i].scriptPubKey = script
    THEN [i \in 1..Len(vec) |->
            IF vec[i].mnlevel = level /\ vec[i].scriptPubKey = script
            THEN [vec[i] EXCEPT !.nVotes = @ + inc]
            ELSE vec[i]]
    ELSE Append(vec, Payee(level, script, vin, inc))

\* CMasternodeBlockPayees::GetPayee(level, payee): the record of the level with the
\* most votes, the lowest script among equals; found = FALSE when the level has none
RECURSIVE GetPayeeFrom(_, _, _, _)
GetPayeeFrom(vec, level, i, best) ==
    IF i > Len(vec) THEN best
    ELSE LET p == vec[i]
             better == /\ p.mnlevel = level
                       /\ \/ ~best.found
                          \/ p.nVotes > best.nVotes
                          \/ p.nVotes = best.nVotes /\ p.scriptPubKey < best.payee
         IN  GetPayeeFrom(vec, level, i + 1,
                 IF better
                 THEN [found |-> TRUE, payee |-> p.scriptPubKey, nVotes |-> p.nVotes]
                 ELSE best)

GetPayee(vec, level) ==
    GetPayeeFrom(vec, level, 1, [found |-> FALSE, payee |-> 0, nVotes |-> -1])

---------------------------------------------------------------------------
(* CMasternodePayments: the election store *)

Store(votes, blocks) == [votes |-> votes, blocks |-> blocks]

NoBlocks == [h \in {} |-> <<>>]

\* GetBlockHash(hash, h): the active chain has a block at height h
GetBlockHash(tip, h) == h >= 0 /\ h <= tip

\* CMasternodePayments::CanVote: no stored vote of this voter for (height, level)
CanVote(votes, vin, h, level) ==
    ~\E v \in votes : v.vinMasternode = vin /\ v.nBlockHeight = h /\ v.payeeLevel = level

\* Mutant: the level asked for is dropped
GetBlockPayeeAnyLevel(blocks, h, level) ==
    IF h \in DOMAIN blocks
    THEN GetPayee(blocks[h], LevelMax)
    ELSE [found |-> FALSE, payee |-> 0, nVotes |-> -1]

GetBlockPayee(blocks, h, level) ==
    IF h \in DOMAIN blocks
    THEN GetPayee(blocks[h], level)
    ELSE [found |-> FALSE, payee |-> 0, nVotes |-> -1]

\* The tally with winnerIn counted: the record of its height is created when missing
TallyWith(blocks, w) ==
    LET vec == IF w.nBlockHeight \in DOMAIN blocks THEN blocks[w.nBlockHeight] ELSE <<>>
    IN  [h \in DOMAIN blocks \cup {w.nBlockHeight} |->
            IF h = w.nBlockHeight
            THEN AddPayee(vec, w.payeeLevel, w.payee, w.payeeVin, 1)
            ELSE blocks[h]]

AddWinningMasternode(st, tip, w) ==
    IF ~GetBlockHash(tip, w.nBlockHeight - RankOffset)
    THEN [ok |-> FALSE, st |-> st]
    ELSE IF w \in st.votes
    THEN [ok |-> FALSE, st |-> st]
    ELSE [ok |-> TRUE, st |-> Store(st.votes \cup {w}, TallyWith(st.blocks, w))]

---------------------------------------------------------------------------
(* The record of the last operation *)

NoWinner == Winner(0, 0, 0, 0)

\* a transaction: its outputs, and whether it is a coinstake
Tx(vout, coinstake) == [vout |-> vout, coinstake |-> coinstake]

NoTx == Tx(<<>>, FALSE)

\* the inputs IsBlockPayeeValid reads from its collaborators
NoArgs == [fSynced |-> TRUE, isBudget |-> FALSE, status |-> "InValid", isTreasury |-> FALSE]

\* the inputs IsBlockValueValid reads: the block's height (0: previous block not
\* found), what it mints and may mint, whether the treasury payees are all paid,
\* whether block.nTime is past the value of SPORK_17_TREASURY_PAYMENT_ENFORCEMENT
NoValue == [nHeight |-> 0, nMinted |-> 0, nExpectedValue |-> 0, treasuryPaid |-> TRUE,
            treasuryEnforced |-> FALSE]

\* relay: the votes relayed; seen / unseen: the hashes marked in and erased from
\* masternodeSync.mapSeenSyncMNW; score: the Misbehaving score given to the peer;
\* ask: the registry request made
\* txBefore, nFees: the transaction and the fees FillBlockPayee was given; result:
\* what a validator returned; args: the inputs of IsBlockPayeeValid; value: the
\* inputs of IsBlockValueValid; activeSporks: the sporks active during the call
Ret(op, outcome) ==
    [op |-> op, outcome |-> outcome, winner |-> NoWinner, relay |-> {}, seen |-> {},
     unseen |-> {}, score |-> 0, ask |-> "none", height |-> 0, nLimit |-> 0,
     txBefore |-> NoTx, nFees |-> 0, args |-> NoArgs, value |-> NoValue,
     activeSporks |-> {}, result |-> TRUE]

NoRet == Ret("init", "none")

\* The threads that call into the subsystem: two message handlers, the block
\* processing thread, the block builder, the sync thread, the prune timer and a
\* caller of IsScheduled; and the locks
Threads == {"net1", "net2", "block", "miner", "sync", "prune", "sched"}
Handlers == {"net1", "net2"}
Locks == {"cs_main", "cs_mapMasternodePayeeVotes", "cs_mapMasternodeBlocks",
          "cs_vecPayments"}

\* what a thread's call has returned and done: relay, the inventory and the count
\* pushed to the peer, the value returned, and whether the store it read held a
\* vote its tally did not count
NoOut == [outcome |-> "none", relay |-> {}, pushed |-> {}, ssc |-> -1, result |-> FALSE,
          obs |-> "none"]

\* pc: where each thread is (the source line it is about to run); owner: the holder
\* of each lock; nHeight: the tip height the thread has read; winner: the vote a
\* handler was sent; events: the lock acquisitions of the thread in order
ThreadState(pc, winner) ==
    [pc |-> pc, owner |-> [l \in Locks |-> "none"], nHeight |-> [t \in Threads |-> 0],
     winner |-> winner, out |-> [t \in Threads |-> NoOut],
     events |-> [t \in Threads |-> <<>>]]

\* nothing has been relayed
NoInventory == <<>>

\* no message has been received
NoMessage == [msg |-> <<>>, env |-> <<>>]

\* no thread is inside the subsystem: no program counter, no lock held
NoThreads ==
    [pc |-> <<>>, owner |-> <<>>, nHeight |-> <<>>, winner |-> <<>>, out |-> <<>>,
     events |-> <<>>]

---------------------------------------------------------------------------
(* CMasternodePaymentWinner::IsValid: the registry knows the voter, its protocol *)
(* is current, and its rank at height - 100 is in the top 10                    *)

\* a validity check that scores every rank beyond the threshold
IsValidScoringAll(known, protoOk, rank, fSynced) ==
    IF ~known THEN [ok |-> FALSE, score |-> 0, ask |-> "AskForMN"]
    ELSE IF ~protoOk \/ rank = -1 THEN [ok |-> FALSE, score |-> 0, ask |-> "none"]
    ELSE IF rank > MNPAYMENTS_SIGNATURES_TOTAL
    THEN [ok |-> FALSE, score |-> IF fSynced THEN 20 ELSE 0, ask |-> "none"]
    ELSE [ok |-> TRUE, score |-> 0, ask |-> "none"]

\* a validity check that lets the ranks up to twice the threshold vote
IsValidTopTwenty(known, protoOk, rank, fSynced) ==
    IF ~known THEN [ok |-> FALSE, score |-> 0, ask |-> "AskForMN"]
    ELSE IF ~protoOk \/ rank = -1 THEN [ok |-> FALSE, score |-> 0, ask |-> "none"]
    ELSE IF rank > MNPAYMENTS_SIGNATURES_TOTAL * 2
    THEN [ok |-> FALSE, score |-> IF fSynced THEN 20 ELSE 0, ask |-> "none"]
    ELSE [ok |-> TRUE, score |-> 0, ask |-> "none"]

IsValid(known, protoOk, rank, fSynced) ==
    IF ~known THEN [ok |-> FALSE, score |-> 0, ask |-> "AskForMN"]
    ELSE IF ~protoOk THEN [ok |-> FALSE, score |-> 0, ask |-> "none"]
    ELSE IF rank = -1 THEN [ok |-> FALSE, score |-> 0, ask |-> "none"]
    ELSE IF rank > MNPAYMENTS_SIGNATURES_TOTAL
    THEN [ok |-> FALSE,
          score |-> IF rank > MNPAYMENTS_SIGNATURES_TOTAL * 2 /\ fSynced THEN 20 ELSE 0,
          ask |-> "none"]
    ELSE [ok |-> TRUE, score |-> 0, ask |-> "none"]

\* winner_mn->Level(): the level the registry records for the masternode paid at s
LevelOf(s) == IF s <= 2 THEN LevelMax ELSE LevelMax - 1

\* what GetNextMasternodeInQueueForPayment may return for a level: no masternode
\* (0) or one of that level
QueueChoices == {q \in [Levels -> {0} \cup Scripts] :
                    \A l \in Levels : q[l] # 0 => LevelOf(q[l]) = l}

\* an early return with the Misbehaving calls of lines 470, 502 and 517 compiled in
DroppedWithBans(r) ==
    /\ ret' = [r EXCEPT !.score = CASE r.outcome = "unknown_payee" -> 2
                                    [] r.outcome \in {"out_of_range", "already_voted"} -> 1
                                    [] OTHER -> @]
    /\ UNCHANGED <<mapMasternodePayeeVotes, mapMasternodeBlocks, nLastBlockHeight,
                   tipHeight, fileDat, txNew, sporks, threads, vRecv, vInventoryToSend>>

\* The handler returns early: the store is left alone
Dropped(r) ==
    /\ ret' = r
    /\ UNCHANGED <<mapMasternodePayeeVotes, mapMasternodeBlocks, nLastBlockHeight,
                   tipHeight, fileDat, txNew, sporks, threads, vRecv, vInventoryToSend>>

\* a window whose lower edge is tip - int(nEnabled * 1.25)
OutOfRangeFloor(h, tip, nEnabled) ==
    h < tip - Times125(nEnabled) \/ h > tip + FutureWindow

\* winner.nBlockHeight is outside [nFirstBlock, tip + 20], nFirstBlock computed
\* from nEnabled = mnodeman.CountEnabled(winner.payeeLevel)
OutOfRange(h, tip, nEnabled) ==
    h < TruncSub125(tip, nEnabled) \/ h > tip + FutureWindow

\* The mnw message off the wire
Message(vin, h, payee, level) == [vin |-> vin, h |-> h, payee |-> payee, level |-> level]

\* What the collaborators answer while one message is handled: legacy (payeeVin is
\* empty, the message of an old version), payeeKnown (mnodeman.Find returns the
\* payee), nEnabled (mnodeman.CountEnabled), known, protoOk and rank (the voter in
\* the registry), fSynced (masternodeSync.IsSynced), sigOk (SignatureValid), locked
\* (the TRY_LOCK(cs_main) before Misbehaving)
Answer(legacy, payeeKnown, nEnabled, known, protoOk, rank, fSynced, sigOk, locked) ==
    [legacy |-> legacy, payeeKnown |-> payeeKnown, nEnabled |-> nEnabled,
     known |-> known, protoOk |-> protoOk, rank |-> rank, fSynced |-> fSynced,
     sigOk |-> sigOk, locked |-> locked]

\* every collaborator agrees and the voter holds rank 10
Agreeing(legacy, nEnabled) ==
    Answer(legacy, TRUE, nEnabled, TRUE, TRUE, 10, TRUE, TRUE, TRUE)

\* every answer the collaborators may give
AnyAnswer == Answer(BOOLEAN, BOOLEAN, MnCounts, BOOLEAN, BOOLEAN, Ranks, BOOLEAN,
                    BOOLEAN, BOOLEAN)

\* the collaborators answer e
Only(e) == [f \in DOMAIN e |-> {e[f]}]

\* The winner the handler goes on with: a legacy message has its level and payeeVin
\* filled in from the registry's masternode (mnodeman.Find(winner.payee))
WinnerOf(m, legacy) ==
    Winner(m.vin, m.h, m.payee, IF legacy THEN LevelOf(m.payee) ELSE m.level)

\* The handler from the window check on, the winner w resolved and not yet stored.
\* The collaborators answer from the sets in D; an answer the code does not read on
\* a path is not drawn on that path
CheckWinner(w, D) ==
    \/ /\ \E nEnabled \in D.nEnabled : OutOfRange(w.nBlockHeight, tipHeight, nEnabled)
       /\ Dropped(Ret("mnw", "out_of_range"))
    \/ /\ \E nEnabled \in D.nEnabled : ~OutOfRange(w.nBlockHeight, tipHeight, nEnabled)
       /\ \E known \in D.known :
          \E protoOk \in IF known THEN D.protoOk ELSE {TRUE} :
          \E rank \in IF known /\ protoOk THEN D.rank ELSE {-1} :
          \E fSynced \in IF rank > MNPAYMENTS_SIGNATURES_TOTAL * 2
                         THEN D.fSynced ELSE {TRUE} :
            LET valid == IsValid(known, protoOk, rank, fSynced)
            IN  IF ~valid.ok
                THEN Dropped([Ret("mnw", "invalid") EXCEPT
                                !.score = valid.score, !.ask = valid.ask])
                ELSE IF ~CanVote(mapMasternodePayeeVotes, w.vinMasternode,
                                 w.nBlockHeight, w.payeeLevel)
                THEN Dropped([Ret("mnw", "already_voted") EXCEPT !.winner = w])
                ELSE \E sigOk \in D.sigOk :
                     \E fSyncedSig \in IF sigOk THEN {TRUE} ELSE D.fSynced :
                     \E locked \in IF sigOk \/ ~fSyncedSig THEN {TRUE} ELSE D.locked :
                    IF ~sigOk
                    THEN Dropped([Ret("mnw", "bad_signature") EXCEPT
                                    !.score = IF fSyncedSig /\ locked THEN 20 ELSE 0,
                                    !.ask = "AskForMN"])
                    ELSE LET add == AddWinningMasternode(
                                        Store(mapMasternodePayeeVotes, mapMasternodeBlocks),
                                        tipHeight, w)
                         IN  IF ~add.ok
                             THEN Dropped(Ret("mnw", "not_added"))
                             ELSE /\ Cardinality(add.st.votes) <= MaxVotes
                                  /\ mapMasternodePayeeVotes' = add.st.votes
                                  /\ mapMasternodeBlocks' = add.st.blocks
                                  /\ ret' = [Ret("mnw", "added") EXCEPT
                                               !.winner = w, !.relay = {w}, !.seen = {w}]
                                  /\ UNCHANGED <<nLastBlockHeight, tipHeight, fileDat,
                                                 txNew, sporks, threads, vRecv, vInventoryToSend>>

\* a handler without the check of line 490: a stored vote goes on to the window check
HandleWinnerNoDedup(m, D) ==
    \/ \E legacy \in D.legacy :
          /\ FALSE \in D.payeeKnown
          /\ Dropped([Ret("mnw", "unknown_payee") EXCEPT
                        !.ask = IF legacy THEN "DsegUpdate" ELSE "AskForMN"])
    \/ \E w \in {WinnerOf(m, legacy) : legacy \in D.legacy} :
          /\ TRUE \in D.payeeKnown
          /\ CheckWinner(w, D)

\* The handler from the decoded message m on, the tip read: a payee the registry
\* does not know ends the handling, and so does a vote that is stored already
HandleWinner(m, D) ==
    \/ \E legacy \in D.legacy :
          /\ FALSE \in D.payeeKnown
          /\ Dropped([Ret("mnw", "unknown_payee") EXCEPT
                        !.ask = IF legacy THEN "DsegUpdate" ELSE "AskForMN"])
    \/ \E w \in {WinnerOf(m, legacy) : legacy \in D.legacy} :
          /\ TRUE \in D.payeeKnown
          /\ IF w \in mapMasternodePayeeVotes
             THEN Dropped([Ret("mnw", "already_seen") EXCEPT
                             !.winner = w, !.seen = {w}])
             ELSE CheckWinner(w, D)

\* the returns before the message is looked at: the chain is not synced, lite mode,
\* another command, a peer below the active protocol, no tip or cs_main is busy
EarlyReturns == {"not_synced", "lite_mode", "other_command", "old_peer", "no_tip"}

ProcessMessageMasternodePayments ==
    \/ \E why \in EarlyReturns : Dropped(Ret("mnw", why))
    \/ \E vin \in Voters, h \in VoteHeights, payee \in PeerScripts, level \in MsgLevels :
          HandleWinner(Message(vin, h, payee, level), AnyAnswer)

---------------------------------------------------------------------------
(* CMasternodePayments::ProcessBlock: the local vote producer *)

\* The loop over the levels: queue[level] is the script of the masternode
\* GetNextMasternodeInQueueForPayment returns (0: none), signOk whether Sign succeeds
\* with the node's key
RECURSIVE ProduceWinners(_, _, _, _, _, _)
ProduceWinners(level, st, winners, h, queue, signOk) ==
    IF level > LevelMax THEN [st |-> st, winners |-> winners]
    ELSE IF queue[level] = 0 \/ ~signOk
    THEN ProduceWinners(level + 1, st, winners, h, queue, signOk)
    ELSE LET newWinner == Winner(ActiveVin, h, queue[level], level)
             add == AddWinningMasternode(st, tipHeight, newWinner)
         IN  IF ~add.ok
             THEN ProduceWinners(level + 1, st, winners, h, queue, signOk)
             ELSE ProduceWinners(level + 1, add.st, winners \cup {newWinner}, h,
                                 queue, signOk)

\* a return that records the height as produced
ProcessBlockReturnsDone(outcome, h) ==
    /\ ret' = [Ret("ProcessBlock", outcome) EXCEPT !.height = h]
    /\ nLastBlockHeight' = Max(nLastBlockHeight, h)
    /\ UNCHANGED <<mapMasternodePayeeVotes, mapMasternodeBlocks, tipHeight, fileDat,
                   txNew, sporks, threads, vRecv, vInventoryToSend>>

ProcessBlockReturns(outcome, h) ==
    /\ ret' = [Ret("ProcessBlock", outcome) EXCEPT !.height = h]
    /\ UNCHANGED <<mapMasternodePayeeVotes, mapMasternodeBlocks, nLastBlockHeight,
                   tipHeight, fileDat, txNew, sporks, threads, vRecv, vInventoryToSend>>

\* Mutant: the height produced last is produced again
AlreadyProducedBefore(nBlockHeight, nLast) == nBlockHeight < nLast

\* the votes of the height, or of a later one, have been produced
AlreadyProduced(nBlockHeight, nLast) == nBlockHeight <= nLast

\* What the node and its collaborators answer while ProcessBlock runs: fMasterNode,
\* n (the node's own rank at height - 100), keyOk (SetKey), isBudget
\* (budget.IsBudgetPaymentBlock), queue (GetNextMasternodeInQueueForPayment per
\* level) and signOk (Sign)
Producer(fMasterNode, n, keyOk, isBudget, queue, signOk) ==
    [fMasterNode |-> fMasterNode, n |-> n, keyOk |-> keyOk, isBudget |-> isBudget,
     queue |-> queue, signOk |-> signOk]

\* every answer they may give
AnyProducer == Producer(BOOLEAN, Ranks, BOOLEAN, BOOLEAN, QueueChoices, BOOLEAN)

\* The answers come from the sets in D; an answer the code does not read on a path
\* is not drawn on that path
ProcessBlock(nBlockHeight, D) ==
    \E fMasterNode \in D.fMasterNode :
        IF ~fMasterNode THEN ProcessBlockReturns("not_masternode", nBlockHeight)
        ELSE IF AlreadyProduced(nBlockHeight, nLastBlockHeight)
        THEN ProcessBlockReturns("already_done", nBlockHeight)
        ELSE \E n \in D.n :
            IF n = -1 THEN ProcessBlockReturns("unknown_rank", nBlockHeight)
            ELSE IF n > MNPAYMENTS_SIGNATURES_TOTAL
            THEN ProcessBlockReturns("bad_rank", nBlockHeight)
            ELSE \E keyOk \in D.keyOk :
                IF ~keyOk THEN ProcessBlockReturns("no_key", nBlockHeight)
                ELSE \E isBudget \in D.isBudget :
                IF isBudget THEN ProcessBlockReturns("budget_block", nBlockHeight)
                ELSE \E queue \in D.queue :
                     \E signOk \in IF \A l \in Levels : queue[l] = 0 THEN {TRUE} ELSE D.signOk :
                    LET out == ProduceWinners(LevelMin,
                                   Store(mapMasternodePayeeVotes, mapMasternodeBlocks),
                                   {}, nBlockHeight, queue, signOk)
                    IN  IF out.winners = {}
                        THEN ProcessBlockReturns("none_produced", nBlockHeight)
                        ELSE /\ Cardinality(out.st.votes) <= MaxVotes
                             /\ mapMasternodePayeeVotes' = out.st.votes
                             /\ mapMasternodeBlocks' = out.st.blocks
                             /\ nLastBlockHeight' = nBlockHeight
                             /\ ret' = [Ret("ProcessBlock", "produced") EXCEPT
                                          !.relay = out.winners, !.height = nBlockHeight]
                             /\ UNCHANGED <<tipHeight, fileDat, txNew, sporks, threads,
                                            vRecv, vInventoryToSend>>

\* The block processor asks for the votes of a height ahead of the tip, inside the
\* window peers accept
NewBlock ==
    \E h \in VoteHeights :
        /\ h > tipHeight
        /\ h <= tipHeight + FutureWindow
        /\ ProcessBlock(h, AnyProducer)

---------------------------------------------------------------------------
(* CMasternodePayments::CleanPaymentList *)

\* Mutant: the votes are erased and the tallies of their heights kept
PrunedKeepsTally(st, tip, nLimit) ==
    Store({v \in st.votes : ~(tip - v.nBlockHeight > nLimit)}, st.blocks)

\* Mutant: the age test is off by one
PrunedOffByOne(st, tip, nLimit) ==
    LET old == {v \in st.votes : tip - v.nBlockHeight > nLimit + 1}
        gone == {v.nBlockHeight : v \in old}
    IN  Store(st.votes \ old, [h \in DOMAIN st.blocks \ gone |-> st.blocks[h]])

\* a loop that erases the votes beyond tip + 20 as well
PrunedBothEdges(st, tip, nLimit) ==
    LET old == {v \in st.votes : \/ tip - v.nBlockHeight > nLimit
                                 \/ v.nBlockHeight > tip + FutureWindow}
        gone == {v.nBlockHeight : v \in old}
    IN  Store(st.votes \ old, [h \in DOMAIN st.blocks \ gone |-> st.blocks[h]])

\* The loop of CleanPaymentList: a vote older than nLimit is erased, and with it
\* the tally of its height
Pruned(st, tip, nLimit) ==
    LET old == {v \in st.votes : tip - v.nBlockHeight > nLimit}
        gone == {v.nBlockHeight : v \in old}
    IN  Store(st.votes \ old, [h \in DOMAIN st.blocks \ gone |-> st.blocks[h]])

\* What CleanPaymentList leaves of the store; locked is the result of
\* TRY_LOCK(cs_main) with a tip present, nSize is mnodeman.size()
CleanPaymentList(st, tip, locked, nSize) ==
    IF ~locked THEN [st |-> st, nLimit |-> 0]
    ELSE LET nLimit == Max(Times125(nSize), HorizonFloor)
         IN  [st |-> Pruned(st, tip, nLimit), nLimit |-> nLimit]

Clean ==
    \E locked \in BOOLEAN, nSize \in MnCounts :
        LET out == CleanPaymentList(Store(mapMasternodePayeeVotes, mapMasternodeBlocks),
                                    tipHeight, locked, nSize)
        IN  /\ mapMasternodePayeeVotes' = out.st.votes
            /\ mapMasternodeBlocks' = out.st.blocks
            /\ ret' = [Ret("CleanPaymentList", IF locked THEN "cleaned" ELSE "no_tip")
                       EXCEPT !.nLimit = out.nLimit,
                              !.unseen = mapMasternodePayeeVotes \ out.st.votes]
            /\ UNCHANGED <<nLastBlockHeight, tipHeight, fileDat, txNew, sporks, threads,
                           vRecv, vInventoryToSend>>

---------------------------------------------------------------------------
(* The chain tip moves: a block is connected or disconnected *)

SetTip ==
    \E t \in TipValues \ {tipHeight} :
        /\ tipHeight' = t
        /\ ret' = [Ret("SetTip", "none") EXCEPT !.height = t]
        /\ UNCHANGED <<mapMasternodePayeeVotes, mapMasternodeBlocks, nLastBlockHeight,
                       fileDat, txNew, sporks, threads, vRecv, vInventoryToSend>>

---------------------------------------------------------------------------
(* The election store: created empty at process start *)

\* CMasternodePaymentDB::strMagicMessage and Params().MessageStart()
strMagicMessage == "MasternodePayments"
MessageStart == "main"

\* operator<< of CMasternodePayments: the (hash, vote) entries, the (height, tally)
\* entries and the last produced height; ok = FALSE is a body that does not decode
Serialize(votes, blocks, nLast) ==
    [ok |-> TRUE, votes |-> {<<v, v>> : v \in votes},
     blocks |-> {<<h, blocks[h]>> : h \in DOMAIN blocks}, nLast |-> nLast]

\* operator>> of CMasternodePayments: the maps are rebuilt from the entries
Unserialize(body) ==
    [votes |-> {e[2] : e \in body.votes},
     blocks |-> [h \in {e[1] : e \in body.blocks} |->
                    (CHOOSE e \in body.blocks : e[1] = h)[2]],
     nLast |-> body.nLast]

\* Hash(ssObj.begin(), ssObj.end()): no two buffers share a hash
Hash(magic, net, body) == <<magic, net, body>>

\* mnpayments.dat: the magic message, the network magic number, the body and the
\* 32-byte checksum tail; tail = FALSE is a file too short to hold the checksum,
\* "cut" a header field the buffer ends before
File(magic, net, body, hashIn) ==
    [state |-> "present", tail |-> TRUE, magic |-> magic, net |-> net, body |-> body,
     hashIn |-> hashIn]

NoFile == [File("", "", Serialize({}, NoBlocks, 0), Hash("", "", Serialize({}, NoBlocks, 0)))
           EXCEPT !.state = "missing", !.tail = FALSE]


Init ==
    /\ mapMasternodePayeeVotes = {}
    /\ mapMasternodeBlocks = NoBlocks
    /\ nLastBlockHeight = 0
    /\ tipHeight = 5000
    /\ fileDat = NoFile
    /\ threads = NoThreads
    /\ vRecv = NoMessage
    /\ vInventoryToSend = NoInventory
    /\ txNew = NoTx
    /\ sporks = {}
    /\ ret = NoRet

Next ==
    \/ ProcessMessageMasternodePayments
    \/ NewBlock
    \/ Clean
    \/ SetTip

Spec == Init /\ [][Next]_vars

---------------------------------------------------------------------------
(* Blocks: the reward transaction, the reward curve, the tally check *)

Out(script, value) == [scriptPubKey |-> script, nValue |-> value]

RECURSIVE SumOut(_)
SumOut(vout) == IF vout = <<>> THEN 0 ELSE Head(vout).nValue + SumOut(Tail(vout))

\* CTxOut::IsZerocoinMint: the scripts below 0 stand for zerocoin mints
IsZerocoinMint(out) == out.scriptPubKey < 0

IsSporkActive(name) == name \in sporks

\* what the registry and the chain parameters report while a block is handled:
\* mnodeman.size(), mnodeman.stable_size(), Params().MasternodeCountDrift()
mnodeman == [size |-> 13, stable_size |-> 11, MasternodeCountDrift |-> 20]

\* GetBlockValue: the reward of the block at nHeight
GetBlockValue(nHeight) == 1200

\* GetMasternodePayment: the share of the level, falling as the masternodes get
\* more; a count below 1 stands for the registry's own count
GetMasternodePayment(nHeight, blockValue, fProofOfStake, level, nMasternodeCount, fZ) ==
    LET n == IF nMasternodeCount >= 1 THEN nMasternodeCount
             ELSE IF IsSporkActive("SPORK_8_MASTERNODE_PAYMENT_ENFORCEMENT")
             THEN mnodeman.stable_size
             ELSE mnodeman.size
    IN  (blockValue * level) \div 10 - n

\* nMasternode_Drift_Count
DriftCount ==
    IF IsSporkActive("SPORK_8_MASTERNODE_PAYMENT_ENFORCEMENT")
    THEN mnodeman.stable_size + mnodeman.MasternodeCountDrift
    ELSE mnodeman.size + mnodeman.MasternodeCountDrift

\* Mutant: a record one vote short of the quorum is enforced
QualifiedOneShort(payee, payNewTiers) ==
    ~(\/ payee.nVotes < MNPAYMENTS_SIGNATURES_REQUIRED - 1
      \/ (~payNewTiers /\ payee.mnlevel # LevelMax))

\* the records the two loops of IsTransactionValid do not skip
Qualified(payee, payNewTiers) ==
    ~(\/ payee.nVotes < MNPAYMENTS_SIGNATURES_REQUIRED
      \/ (~payNewTiers /\ payee.mnlevel # LevelMax))

\* the first loop: level -> the most votes of a qualified record of the level
MaxSignatures(vec, payNewTiers) ==
    LET q == {i \in 1..Len(vec) : Qualified(vec[i], payNewTiers)}
    IN  [l \in {vec[i].mnlevel : i \in q} |->
            CHOOSE n \in {vec[i].nVotes : i \in q} :
                /\ \E i \in q : vec[i].mnlevel = l /\ vec[i].nVotes = n
                /\ \A i \in q : vec[i].mnlevel = l => vec[i].nVotes <= n]

\* Mutant: the value of the output is not looked at
PaysPayeeAnyValue(vout, payee, required) ==
    \E k \in 1..Len(vout) : payee.scriptPubKey = vout[k].scriptPubKey

\* the find_if over txNew.vout: is_payee && is_value_required
PaysPayee(vout, payee, required) ==
    \E k \in 1..Len(vout) :
        /\ payee.scriptPubKey = vout[k].scriptPubKey
        /\ vout[k].nValue >= required

\* the second loop, from record i on, max_signatures still holding the levels left
RECURSIVE MatchPayees(_, _, _, _, _, _, _)
MatchPayees(vec, i, left, tx, nBlockHeight, nBlockValue, fProofOfStake) ==
    IF i > Len(vec) THEN FALSE
    ELSE IF ~Qualified(vec[i], IsSporkActive("SPORK_18_NEW_MASTERNODE_TIERS"))
    THEN MatchPayees(vec, i + 1, left, tx, nBlockHeight, nBlockValue, fProofOfStake)
    ELSE LET required == GetMasternodePayment(nBlockHeight, nBlockValue, fProofOfStake,
                                              vec[i].mnlevel, DriftCount, FALSE)
         IN  IF PaysPayee(tx.vout, vec[i], required)
             THEN LET erased == [l \in DOMAIN left \ {vec[i].mnlevel} |-> left[l]]
                  IN  IF DOMAIN erased # {}
                      THEN MatchPayees(vec, i + 1, erased, tx, nBlockHeight, nBlockValue,
                                       fProofOfStake)
                      ELSE TRUE
             ELSE MatchPayees(vec, i + 1, left, tx, nBlockHeight, nBlockValue,
                              fProofOfStake)

\* CMasternodeBlockPayees::IsTransactionValid
BlockPayeesIsTransactionValid(vec, tx, nBlockHeight, nBlockValue, fProofOfStake) ==
    LET max_signatures == MaxSignatures(vec, IsSporkActive("SPORK_18_NEW_MASTERNODE_TIERS"))
    IN  IF DOMAIN max_signatures = {} THEN TRUE
        ELSE MatchPayees(vec, 1, max_signatures, tx, nBlockHeight, nBlockValue,
                         fProofOfStake)

\* CMasternodePayments::IsTransactionValid
IsTransactionValid(blocks, tx, nBlockHeight, nBlockValue, fProofOfStake) ==
    IF nBlockHeight \in DOMAIN blocks
    THEN BlockPayeesIsTransactionValid(blocks[nBlockHeight], tx, nBlockHeight,
                                       nBlockValue, fProofOfStake)
    ELSE TRUE

---------------------------------------------------------------------------
(* CMasternodePayments::FillBlockPayee: the builder *)

\* Mutant: the votes are not asked, the registry's current masternode is paid
PayeeOfRegistryOnly(blocks, h, mnlevel, current) ==
    [hasPayment |-> current[mnlevel] # 0, payee |-> current[mnlevel]]

\* the payee of a level: the block payee the votes name, else the registry's
\* current masternode of the level (current[mnlevel], 0: none), else no payment
PayeeOf(blocks, h, mnlevel, current) ==
    LET r == GetBlockPayee(blocks, h, mnlevel)
    IN  IF r.found THEN [hasPayment |-> TRUE, payee |-> r.payee]
        ELSE [hasPayment |-> current[mnlevel] # 0, payee |-> current[mnlevel]]

\* Mutant: the dust of an uneven division is left with the stake
ChargeStakeNoRemainder(vout, outputs, masternodePayment) ==
    IF IsZerocoinMint(vout[2]) THEN vout
    ELSE IF outputs = 1 THEN [vout EXCEPT ![2].nValue = @ - masternodePayment]
    ELSE IF outputs > 1
    THEN [k \in 1..Len(vout) |->
            IF k >= 2 /\ k <= outputs + 1
            THEN [vout[k] EXCEPT !.nValue = @ - masternodePayment \div outputs]
            ELSE vout[k]]
    ELSE vout

\* a charge that takes the remainder from the first stake output
ChargeStakeRemainderFirst(vout, outputs, masternodePayment) ==
    IF IsZerocoinMint(vout[2]) THEN vout
    ELSE IF outputs = 1 THEN [vout EXCEPT ![2].nValue = @ - masternodePayment]
    ELSE IF outputs > 1
    THEN LET mnPaymentSplit == masternodePayment \div outputs
             mnPaymentRemainder == masternodePayment - mnPaymentSplit * outputs
         IN  [k \in 1..Len(vout) |->
                IF k >= 2 /\ k <= outputs + 1
                THEN [vout[k] EXCEPT !.nValue =
                        @ - mnPaymentSplit - (IF k = 2 THEN mnPaymentRemainder ELSE 0)]
                ELSE vout[k]]
    ELSE vout

\* the payment is subtracted from the stake reward: vout[1] .. vout[outputs] of the
\* code are vout[2] .. vout[outputs + 1] here
ChargeStake(vout, outputs, masternodePayment) ==
    IF IsZerocoinMint(vout[2]) THEN vout
    ELSE IF outputs = 1 THEN [vout EXCEPT ![2].nValue = @ - masternodePayment]
    ELSE IF outputs > 1
    THEN LET mnPaymentSplit == masternodePayment \div outputs
             mnPaymentRemainder == masternodePayment - mnPaymentSplit * outputs
         IN  [k \in 1..Len(vout) |->
                IF k >= 2 /\ k <= outputs + 1
                THEN [vout[k] EXCEPT !.nValue =
                        @ - mnPaymentSplit - (IF k = outputs + 1 THEN mnPaymentRemainder
                                              ELSE 0)]
                ELSE vout[k]]
    ELSE vout

\* the Proof-of-Work branch: vout is resized to 1 + level outputs, the payee is
\* written at vout[level], vout[0] pays the rest
PayCoinbase(vout, level, payee, masternodePayment, nBlockValue) ==
    LET resized == [k \in 1..(1 + level) |->
                      IF k <= Len(vout) THEN vout[k] ELSE Out(0, 0)]
        paid == [resized EXCEPT ![level + 1] = Out(payee, masternodePayment)]
    IN  [paid EXCEPT ![1].nValue = IF level = 1 THEN nBlockValue - masternodePayment
                                   ELSE @ - masternodePayment]

\* the loop over the levels from mnlevel on; level counts the payments made so far
\* plus one, outputs the stake outputs found at the first payment
RECURSIVE FillLevels(_, _, _, _, _)
FillLevels(mnlevel, vout, level, outputs, arg) ==
    IF mnlevel > LevelMax THEN vout
    ELSE LET p == PayeeOf(arg.blocks, arg.nHeight, mnlevel, arg.current)
             masternodePayment == GetMasternodePayment(arg.nHeight, arg.nBlockValue,
                                      arg.fProofOfStake, mnlevel, 0, arg.fZSPLStake)
         IN  IF ~p.hasPayment
             THEN FillLevels(mnlevel + 1, vout, level, outputs, arg)
             ELSE IF arg.fProofOfStake
             THEN LET i == Len(vout)
                      outs == IF level = 1 THEN i - 1 ELSE outputs
                  IN  FillLevels(mnlevel + 1,
                          ChargeStake(Append(vout, Out(p.payee, masternodePayment)),
                                      outs, masternodePayment),
                          level + 1, outs, arg)
             ELSE FillLevels(mnlevel + 1,
                      PayCoinbase(vout, level, p.payee, masternodePayment,
                                  arg.nBlockValue),
                      level + 1, outputs, arg)

\* CMasternodePayments::FillBlockPayee for the block after the tip; nFees is not
\* read. current: what mnodeman.GetCurrentMasterNode(level, 1) returns per level
FillBlockPayee(tx, nFees, fProofOfStake, fZSPLStake, nBlockValue, blocks, tip, current) ==
    Tx(FillLevels(IF IsSporkActive("SPORK_18_NEW_MASTERNODE_TIERS")
                  THEN LevelMin ELSE LevelMax,
                  tx.vout, 1, 1,
                  [blocks |-> blocks, nHeight |-> tip + 1, current |-> current,
                   nBlockValue |-> nBlockValue, fProofOfStake |-> fProofOfStake,
                   fZSPLStake |-> fZSPLStake]),
       tx.coinstake)

---------------------------------------------------------------------------
(* IsBlockPayeeValid *)

\* Mutant: a treasury block is checked against the votes like any other
IsBlockPayeeValidNoTreasury(fSynced, isBudget, transactionStatus, isTreasury, tallyOk) ==
    IF ~fSynced THEN TRUE
    ELSE IF /\ IsSporkActive("SPORK_13_ENABLE_SUPERBLOCKS") /\ isBudget
            /\ transactionStatus = "Valid"
    THEN TRUE
    ELSE IF /\ IsSporkActive("SPORK_13_ENABLE_SUPERBLOCKS") /\ isBudget
            /\ transactionStatus = "InValid"
            /\ IsSporkActive("SPORK_9_MASTERNODE_BUDGET_ENFORCEMENT")
    THEN FALSE
    ELSE IF tallyOk THEN TRUE
    ELSE ~IsSporkActive("SPORK_8_MASTERNODE_PAYMENT_ENFORCEMENT")

\* Mutant: an invalid budget payment is rejected whether enforced or not
IsBlockPayeeValidStrictBudget(fSynced, isBudget, transactionStatus, isTreasury, tallyOk) ==
    IF ~fSynced THEN TRUE
    ELSE IF /\ IsSporkActive("SPORK_13_ENABLE_SUPERBLOCKS") /\ isBudget
            /\ transactionStatus = "Valid"
    THEN TRUE
    ELSE IF /\ IsSporkActive("SPORK_13_ENABLE_SUPERBLOCKS") /\ isBudget
            /\ transactionStatus = "InValid"
    THEN FALSE
    ELSE IF ~isTreasury
    THEN IF tallyOk THEN TRUE
         ELSE ~IsSporkActive("SPORK_8_MASTERNODE_PAYMENT_ENFORCEMENT")
    ELSE TRUE

\* fSynced: masternodeSync.IsSynced(); isBudget: budget.IsBudgetPaymentBlock;
\* transactionStatus: what budget.IsTransactionValid returns; isTreasury:
\* IsTreasuryBlock; tallyOk: what masternodePayments.IsTransactionValid returns
IsBlockPayeeValid(fSynced, isBudget, transactionStatus, isTreasury, tallyOk) ==
    IF ~fSynced THEN TRUE
    ELSE IF /\ IsSporkActive("SPORK_13_ENABLE_SUPERBLOCKS") /\ isBudget
            /\ transactionStatus = "Valid"
    THEN TRUE
    ELSE IF /\ IsSporkActive("SPORK_13_ENABLE_SUPERBLOCKS") /\ isBudget
            /\ transactionStatus = "InValid"
            /\ IsSporkActive("SPORK_9_MASTERNODE_BUDGET_ENFORCEMENT")
    THEN FALSE
    ELSE IF ~isTreasury
    THEN IF tallyOk THEN TRUE
         ELSE ~IsSporkActive("SPORK_8_MASTERNODE_PAYMENT_ENFORCEMENT")
    ELSE TRUE

---------------------------------------------------------------------------
(* Blocks built and validated against an election that has been held *)

\* a tally holds up to this many payee records
MaxPayees == 2
\* a peer's reward transaction has up to this many outputs
MaxOuts == 2

\* levels and vote counts of the payee records: the top level and the one below,
\* one vote short of the quorum and the quorum
TallyLevels == {LevelMax - 1, LevelMax}
VoteCounts == {MNPAYMENTS_SIGNATURES_REQUIRED - 1, MNPAYMENTS_SIGNATURES_REQUIRED}
PayeeRecords == {Payee(l, s, s, n) : l \in TallyLevels, s \in PeerScripts, n \in VoteCounts}

\* the tallies AddPayee builds: a record per (level, script)
TalliesOf(maxLen, records) ==
    UNION {{vec \in [1..n -> records] :
               \A i, j \in 1..n :
                  (/\ vec[i].mnlevel = vec[j].mnlevel
                   /\ vec[i].scriptPubKey = vec[j].scriptPubKey) => i = j}
           : n \in 0..maxLen}

\* the votes a tally counts, each of a voter of its own
VotesOfTally(vec, h) ==
    UNION {{Winner(i * MNPAYMENTS_SIGNATURES_TOTAL + k, h, vec[i].scriptPubKey,
                   vec[i].mnlevel) : k \in 1..vec[i].nVotes}
           : i \in 1..Len(vec)}

\* the election for the block after the tip has been held, the sporks are set
InitBlocks(tallies, sporkSets) ==
    \E vec \in tallies, active \in sporkSets :
        /\ tipHeight = 5000
        /\ mapMasternodeBlocks = (IF vec = <<>> THEN NoBlocks
                                  ELSE [h \in {tipHeight + 1} |-> vec])
        /\ mapMasternodePayeeVotes = VotesOfTally(vec, tipHeight + 1)
        /\ nLastBlockHeight = 0
        /\ fileDat = NoFile
        /\ threads = NoThreads
        /\ vRecv = NoMessage
        /\ vInventoryToSend = NoInventory
        /\ txNew = NoTx
        /\ sporks = active
        /\ ret = NoRet

\* the payment the tally check requires for a level
Required(level) ==
    GetMasternodePayment(tipHeight + 1, GetBlockValue(tipHeight + 1), FALSE, level,
                         DriftCount, FALSE)

\* outputs of a peer's reward transaction: a payee paid the amount required for a
\* level, or one unit less than the least of them
PeerOuts ==
    {Out(s, v) : s \in PeerScripts,
                 v \in {Required(LevelMax - 1) - 1} \cup {Required(l) : l \in TallyLevels}}

PeerVouts == UNION {[1..n -> PeerOuts] : n \in 0..MaxOuts}

\* A peer's Proof-of-Work block of the next height arrives and its reward
\* transaction is checked against the tally; one block is handled at a height
ValidateTx ==
    \E coinstake \in {FALSE}, vout \in PeerVouts :
        /\ ret = NoRet
        /\ txNew' = Tx(vout, coinstake)
        /\ ret' = [Ret("IsTransactionValid", "none") EXCEPT
                     !.height = tipHeight + 1,
                     !.result = IsTransactionValid(mapMasternodeBlocks, Tx(vout, coinstake),
                                    tipHeight + 1, GetBlockValue(tipHeight + 1), coinstake)]
        /\ UNCHANGED <<mapMasternodePayeeVotes, mapMasternodeBlocks, nLastBlockHeight,
                       tipHeight, fileDat, sporks, threads, vRecv, vInventoryToSend>>

\* fees of the transactions of a block
Fees == {0, 7}

\* the coinbase the miner hands over: vout[0] holds the block value and the fees
Coinbase(nFees) == Tx(<<Out(0, GetBlockValue(tipHeight + 1) + nFees)>>, FALSE)

\* the coinstakes the staker hands over: vout[0] empty, then the stake in one, two
\* or three outputs, or a zerocoin mint
Coinstakes ==
    {Tx(<<Out(0, 0)>> \o stake, TRUE) :
        stake \in {<<Out(9, 5000)>>, <<Out(9, 2500), Out(9, 2500)>>,
                   <<Out(9, 2000), Out(9, 2000), Out(9, 1000)>>, <<Out(-1, 5000)>>}}

\* The miner or the staker builds the block after the tip
FillBlock ==
    \E fProofOfStake \in BOOLEAN, current \in QueueChoices :
    \E nFees \in IF fProofOfStake THEN {0} ELSE Fees :
    \E tx \in IF fProofOfStake THEN Coinstakes ELSE {Coinbase(nFees)} :
        /\ ret = NoRet
        /\ txNew' = FillBlockPayee(tx, nFees, fProofOfStake,
                                   fProofOfStake /\ IsZerocoinMint(tx.vout[2]),
                                   GetBlockValue(tipHeight + 1), mapMasternodeBlocks,
                                   tipHeight, current)
        /\ ret' = [Ret("FillBlockPayee", "none") EXCEPT
                     !.height = tipHeight + 1, !.txBefore = tx, !.nFees = nFees]
        /\ UNCHANGED <<mapMasternodePayeeVotes, mapMasternodeBlocks, nLastBlockHeight,
                       tipHeight, fileDat, sporks, threads, vRecv, vInventoryToSend>>

InitPay ==
    InitBlocks(TalliesOf(MaxPayees, PayeeRecords),
               SUBSET {"SPORK_8_MASTERNODE_PAYMENT_ENFORCEMENT",
                       "SPORK_18_NEW_MASTERNODE_TIERS"})

NextPay ==
    \/ ValidateTx
    \/ FillBlock

SpecPay == InitPay /\ [][NextPay]_vars

\* A block arrives and IsBlockPayeeValid decides on its payee. status: what the
\* budget answers when asked, "InValid" when it is not asked
ConnectBlock ==
    \E fSynced \in BOOLEAN :
    \E coinstake \in IF fSynced THEN BOOLEAN ELSE {FALSE} :
    \E vout \in IF fSynced THEN {<<>>, <<Out(1, Required(LevelMax))>>} ELSE {<<>>} :
    \E isBudget \in BOOLEAN, isTreasury \in BOOLEAN :
    \E status \in IF fSynced /\ isBudget /\ IsSporkActive("SPORK_13_ENABLE_SUPERBLOCKS")
                  THEN {"Valid", "InValid", "DoublePayment", "VoteThreshold"}
                  ELSE {"InValid"} :
        LET tx == Tx(vout, coinstake)
            tallyOk == IsTransactionValid(mapMasternodeBlocks, tx, tipHeight + 1,
                                          GetBlockValue(tipHeight + 1), coinstake)
        IN  /\ txNew' = tx
            /\ ret' = [Ret("IsBlockPayeeValid", "none") EXCEPT
                         !.height = tipHeight + 1,
                         !.args = [fSynced |-> fSynced, isBudget |-> isBudget,
                                   status |-> status, isTreasury |-> isTreasury],
                         !.result = IsBlockPayeeValid(fSynced, isBudget, status,
                                                      isTreasury, tallyOk)]
            /\ UNCHANGED <<mapMasternodePayeeVotes, mapMasternodeBlocks, nLastBlockHeight,
                           tipHeight, fileDat, sporks, threads, vRecv, vInventoryToSend>>

InitPayee ==
    InitBlocks(TalliesOf(1, {Payee(LevelMax, 1, 1, n) : n \in VoteCounts}),
               SUBSET {"SPORK_8_MASTERNODE_PAYMENT_ENFORCEMENT",
                       "SPORK_9_MASTERNODE_BUDGET_ENFORCEMENT",
                       "SPORK_13_ENABLE_SUPERBLOCKS"})

NextPayee == ConnectBlock

SpecPayee == InitPayee /\ [][NextPayee]_vars

---------------------------------------------------------------------------
(* IsBlockValueValid *)

\* what the chain parameters report: Params().GetBudgetCycleBlocks()
Params == [GetBudgetCycleBlocks |-> 1000]

\* the first blocks of a budget cycle, where superblocks may be
BudgetWindow == 100

\* Mutant: the budget window is one block longer
IsBlockValueValidLongWindow(hasTip, v, fSynced, isTreasury, isBudget) ==
    IF ~hasTip THEN TRUE
    ELSE IF isTreasury /\ ~v.treasuryPaid /\ v.treasuryEnforced THEN FALSE
    ELSE IF ~fSynced
    THEN IF v.nHeight % Params.GetBudgetCycleBlocks <= BudgetWindow THEN TRUE
         ELSE ~(v.nMinted > v.nExpectedValue)
    ELSE IF ~IsSporkActive("SPORK_13_ENABLE_SUPERBLOCKS")
    THEN v.nMinted <= v.nExpectedValue
    ELSE IF isBudget THEN TRUE
    ELSE ~(v.nMinted > v.nExpectedValue)

\* hasTip: chainActive.Tip() is there; v: the block's height, values and treasury
\* payment; isTreasury: IsTreasuryBlock(nHeight); isBudget:
\* budget.IsBudgetPaymentBlock(nHeight)
IsBlockValueValid(hasTip, v, fSynced, isTreasury, isBudget) ==
    IF ~hasTip THEN TRUE
    ELSE IF isTreasury /\ ~v.treasuryPaid /\ v.treasuryEnforced THEN FALSE
    ELSE IF ~fSynced
    THEN IF v.nHeight % Params.GetBudgetCycleBlocks < BudgetWindow THEN TRUE
         ELSE ~(v.nMinted > v.nExpectedValue)
    ELSE IF ~IsSporkActive("SPORK_13_ENABLE_SUPERBLOCKS")
    THEN v.nMinted <= v.nExpectedValue
    ELSE IF isBudget THEN TRUE
    ELSE ~(v.nMinted > v.nExpectedValue)

\* heights of the blocks that arrive: the block after the tip, blocks out of order
\* at the edge of the budget window and beyond it, 0 when the previous block is
\* not found
ValueHeights == {0, 5001, 5099, 5100, 5500}

\* A block arrives and IsBlockValueValid decides on what it mints
CheckBlockValue ==
    \E hasTip \in BOOLEAN :
    \E nHeight \in IF hasTip THEN ValueHeights ELSE {0} :
    \E d \in IF hasTip THEN {-1, 0, 1} ELSE {0} :
    \E fSynced \in IF hasTip THEN BOOLEAN ELSE {TRUE} :
    \E isBudget \in IF hasTip THEN BOOLEAN ELSE {FALSE} :
    \E isTreasury \in IF hasTip THEN BOOLEAN ELSE {FALSE} :
    \E treasuryPaid \in IF isTreasury THEN BOOLEAN ELSE {TRUE} :
    \E treasuryEnforced \in IF isTreasury /\ ~treasuryPaid THEN BOOLEAN ELSE {FALSE} :
        LET v == [nHeight |-> nHeight, nMinted |-> GetBlockValue(nHeight) + d,
                  nExpectedValue |-> GetBlockValue(nHeight),
                  treasuryPaid |-> treasuryPaid, treasuryEnforced |-> treasuryEnforced]
        IN  /\ ret' = [Ret("IsBlockValueValid", IF hasTip THEN "none" ELSE "no_tip") EXCEPT
                         !.height = nHeight,
                         !.value = v,
                         !.args = [NoArgs EXCEPT !.fSynced = fSynced,
                                                 !.isBudget = isBudget,
                                                 !.isTreasury = isTreasury],
                         !.result = IsBlockValueValid(hasTip, v, fSynced, isTreasury,
                                                      isBudget)]
            /\ UNCHANGED <<mapMasternodePayeeVotes, mapMasternodeBlocks, nLastBlockHeight,
                           tipHeight, fileDat, txNew, sporks, threads, vRecv, vInventoryToSend>>

InitValue == InitBlocks({<<>>}, SUBSET {"SPORK_13_ENABLE_SUPERBLOCKS"})

NextValue == CheckBlockValue

SpecValue == InitValue /\ [][NextValue]_vars

---------------------------------------------------------------------------
(* The tally check called again and again while the sporks change *)

\* Mutant: the tally of the height is looked up with operator[], which creates it
BlocksAfterLookupCreating(blocks, nBlockHeight) ==
    [h \in DOMAIN blocks \cup {nBlockHeight} |->
        IF h \in DOMAIN blocks THEN blocks[h] ELSE <<>>]

\* mapMasternodeBlocks after IsTransactionValid: count() guards the lookup
BlocksAfterLookup(blocks, nBlockHeight) == blocks

\* The block in hand, or another one, is checked against the tally. outcome:
\* "first" for new arguments, "again" for the arguments of the call before with
\* the sporks as they were, "again_sporks_changed" with the sporks changed since
RevalidateTx ==
    \E vout \in {<<>>} \cup {<<Out(1, Required(l))>> : l \in TallyLevels} :
        LET tx == Tx(vout, FALSE)
            repeated == ret.op = "IsTransactionValid" /\ txNew = tx
        IN  /\ txNew' = tx
            /\ ret' = [Ret("IsTransactionValid",
                           IF ~repeated THEN "first"
                           ELSE IF ret.activeSporks = sporks THEN "again"
                           ELSE "again_sporks_changed") EXCEPT
                         !.height = tipHeight + 1,
                         !.activeSporks = sporks,
                         !.result = IsTransactionValid(mapMasternodeBlocks, tx,
                                        tipHeight + 1, GetBlockValue(tipHeight + 1), FALSE)]
            /\ mapMasternodeBlocks' = BlocksAfterLookup(mapMasternodeBlocks, tipHeight + 1)
            /\ UNCHANGED <<mapMasternodePayeeVotes, nLastBlockHeight, tipHeight, fileDat,
                           sporks, threads, vRecv, vInventoryToSend>>

\* A spork message switches a spork the tally check reads
SporkChange ==
    \E name \in {"SPORK_8_MASTERNODE_PAYMENT_ENFORCEMENT", "SPORK_18_NEW_MASTERNODE_TIERS"} :
        /\ sporks' = (IF name \in sporks THEN sporks \ {name} ELSE sporks \cup {name})
        /\ UNCHANGED <<mapMasternodePayeeVotes, mapMasternodeBlocks, nLastBlockHeight,
                       tipHeight, fileDat, txNew, ret, threads, vRecv, vInventoryToSend>>

InitAgain ==
    InitBlocks(TalliesOf(1, {Payee(l, 1, 1, MNPAYMENTS_SIGNATURES_REQUIRED) :
                                l \in TallyLevels}),
               {{}})

NextAgain ==
    \/ RevalidateTx
    \/ SporkChange

SpecAgain == InitAgain /\ [][NextAgain]_vars

---------------------------------------------------------------------------
(* CMasternodePaymentDB: writing and reading mnpayments.dat *)

Obj(votes, blocks, nLast) == [votes |-> votes, blocks |-> blocks, nLast |-> nLast]

\* CMasternodePayments::Clear: both maps are emptied
Clear(obj) == Obj({}, NoBlocks, obj.nLast)

\* CMasternodePaymentDB::Write: opened is the result of fopen(pathDB, "wb")
Write(file, objToSave, opened) ==
    IF ~opened THEN file
    ELSE LET body == Serialize(objToSave.votes, objToSave.blocks, objToSave.nLast)
         IN  File(strMagicMessage, MessageStart, body,
                  Hash(strMagicMessage, MessageStart, body))

\* The try block of Read: the header is decoded and compared field by field, then
\* the body is decoded into objToLoad; an exception of any of the three decodings
\* ends in the catch, which clears objToLoad
ParseBuffer(file, objToLoad, fDryRun, tip, locked, nSize) ==
    IF file.magic = "cut" THEN [result |-> "IncorrectFormat", obj |-> Clear(objToLoad)]
    ELSE IF file.magic # strMagicMessage
    THEN [result |-> "IncorrectMagicMessage", obj |-> objToLoad]
    ELSE IF file.net = "cut" THEN [result |-> "IncorrectFormat", obj |-> Clear(objToLoad)]
    ELSE IF file.net # MessageStart
    THEN [result |-> "IncorrectMagicNumber", obj |-> objToLoad]
    ELSE IF ~file.body.ok THEN [result |-> "IncorrectFormat", obj |-> Clear(objToLoad)]
    ELSE LET loaded == Unserialize(file.body)
             cleaned == CleanPaymentList(Store(loaded.votes, loaded.blocks), tip,
                                         locked, nSize).st
         IN  [result |-> "Ok",
              obj |-> IF fDryRun THEN loaded
                      ELSE Obj(cleaned.votes, cleaned.blocks, loaded.nLast)]

\* CMasternodePaymentDB::Read; tip, locked and nSize are what CleanPaymentList finds
Read(file, objToLoad, fDryRun, tip, locked, nSize) ==
    IF file.state = "missing" THEN [result |-> "FileError", obj |-> objToLoad]
    ELSE IF ~file.tail THEN [result |-> "HashReadError", obj |-> objToLoad]
    ELSE IF file.hashIn # Hash(file.magic, file.net, file.body)
    THEN [result |-> "IncorrectHash", obj |-> objToLoad]
    ELSE ParseBuffer(file, objToLoad, fDryRun, tip, locked, nSize)

\* The election store is loaded from the file
Load ==
    \E locked \in BOOLEAN, nSize \in MnCounts :
        LET r == Read(fileDat,
                      Obj(mapMasternodePayeeVotes, mapMasternodeBlocks, nLastBlockHeight),
                      FALSE, tipHeight, locked, nSize)
        IN  /\ mapMasternodePayeeVotes' = r.obj.votes
            /\ mapMasternodeBlocks' = r.obj.blocks
            /\ nLastBlockHeight' = r.obj.nLast
            /\ ret' = [Ret("Read", r.result) EXCEPT
                         !.ask = IF locked THEN "locked" ELSE "no_tip",
                         !.score = nSize]
            /\ UNCHANGED <<tipHeight, fileDat, txNew, sporks, threads, vRecv, vInventoryToSend>>

\* DumpMasternodePayments: the file is verified with a dry run into a temporary
\* store, and rewritten unless it is of an unknown kind
DumpMasternodePayments ==
    \E opened \in BOOLEAN :
        LET readResult == Read(fileDat, Obj({}, NoBlocks, 0), TRUE, tipHeight, FALSE, 0).result
            proceed == readResult \in {"FileError", "Ok", "IncorrectFormat"}
        IN  /\ fileDat' = (IF proceed
                           THEN Write(fileDat, Obj(mapMasternodePayeeVotes,
                                                   mapMasternodeBlocks, nLastBlockHeight),
                                      opened)
                           ELSE fileDat)
            /\ ret' = [Ret("DumpMasternodePayments", readResult) EXCEPT
                         !.result = proceed /\ opened]
            /\ UNCHANGED <<mapMasternodePayeeVotes, mapMasternodeBlocks, nLastBlockHeight,
                           tipHeight, txNew, sporks, threads, vRecv, vInventoryToSend>>

\* What the file system hands to Read instead of the file written: no file, a file
\* shorter than a checksum, changed bytes under the old checksum, and files whose
\* checksum is right: another program's, another network's, one that ends inside
\* the header, one whose body does not decode
DamageKinds == {"removed", "truncated", "flipped", "foreign", "testnet", "cut_magic",
                "cut_net", "garbled"}

Damaged(file, kind) ==
    LET bad == [file.body EXCEPT !.ok = FALSE]
    IN  CASE kind = "removed" -> NoFile
          [] kind = "truncated" -> [file EXCEPT !.tail = FALSE]
          [] kind = "flipped" -> [file EXCEPT !.body = bad]
          [] kind = "foreign" -> File("MasternodeCache", file.net, file.body,
                                      Hash("MasternodeCache", file.net, file.body))
          [] kind = "testnet" -> File(file.magic, "test", file.body,
                                      Hash(file.magic, "test", file.body))
          [] kind = "cut_magic" -> File("cut", "cut", bad, Hash("cut", "cut", bad))
          [] kind = "cut_net" -> File(file.magic, "cut", bad, Hash(file.magic, "cut", bad))
          [] kind = "garbled" -> File(file.magic, file.net, bad,
                                      Hash(file.magic, file.net, bad))

Damage ==
    \E kind \in DamageKinds :
        /\ fileDat.state = "present"
        /\ fileDat' = Damaged(fileDat, kind)
        /\ ret' = Ret("Damage", kind)
        /\ UNCHANGED <<mapMasternodePayeeVotes, mapMasternodeBlocks, nLastBlockHeight,
                       tipHeight, txNew, sporks, threads, vRecv, vInventoryToSend>>

\* the votes of the run before: one older than the horizon of a registry of 800
\* and within that of 801, one for the block after the tip
EarlierVotes == {Winner(1, 3999, 1, LevelMax), Winner(2, 5001, 2, LevelMax)}

RECURSIVE TallyOf(_)
TallyOf(votes) ==
    IF votes = {} THEN NoBlocks
    ELSE LET w == CHOOSE v \in votes : TRUE
         IN  TallyWith(TallyOf(votes \ {w}), w)

\* process start: the store is empty, the file is the one the run before left
InitDb ==
    /\ mapMasternodePayeeVotes = {}
    /\ mapMasternodeBlocks = NoBlocks
    /\ nLastBlockHeight = 0
    /\ tipHeight = 5000
    /\ fileDat \in {NoFile} \cup {Write(NoFile, Obj(votes, TallyOf(votes), 3999), TRUE) :
                                      votes \in SUBSET EarlierVotes}
    /\ threads = NoThreads
    /\ vRecv = NoMessage
    /\ vInventoryToSend = NoInventory
    /\ txNew = NoTx
    /\ sporks = {}
    /\ ret = NoRet

NextDb ==
    \/ Load
    \/ DumpMasternodePayments
    \/ Damage

SpecDb == InitDb /\ [][NextDb]_vars

---------------------------------------------------------------------------
(* The operations as concurrent threads run them: one step per lock taken and *)
(* per access to the shared maps. A program counter is the source line the    *)
(* thread is about to run.                                                     *)

Held(th, t) == {l \in Locks : th.owner[l] = t}

\* Mutant: CleanPaymentList takes the tallies lock before the votes lock
LockAtTalliesFirst(pc) ==
    CASE pc \in {"L441", "L580", "L766", "L950", "main"} -> "cs_main"
      [] pc \in {"L610a", "L762b", "L946"} -> "cs_mapMasternodePayeeVotes"
      [] pc \in {"L610b", "L762a", "L576", "L751"} -> "cs_mapMasternodeBlocks"
      [] pc = "L631" -> "cs_vecPayments"
      [] OTHER -> "none"

\* the lock taken at a source line; "main" is the LOCK(cs_main) of the caller of
\* the block validation
LockAt(pc) ==
    CASE pc \in {"L441", "L580", "L766", "L950", "main"} -> "cs_main"
      [] pc \in {"L610a", "L762a", "L946"} -> "cs_mapMasternodePayeeVotes"
      [] pc \in {"L610b", "L762b", "L576", "L751"} -> "cs_mapMasternodeBlocks"
      [] pc = "L631" -> "cs_vecPayments"
      [] OTHER -> "none"

\* Mutant: CleanPaymentList takes cs_main with LOCK
IsTryLockButClean(pc) == pc \in {"L441", "L580", "L950"}

\* the lines that take their lock with TRY_LOCK
IsTryLock(pc) == pc \in {"L441", "L580", "L766", "L950"}

\* the thread is at a LOCK and another thread holds the lock
Waiting(th, t) ==
    /\ LockAt(th.pc[t]) # "none"
    /\ ~IsTryLock(th.pc[t])
    /\ th.owner[LockAt(th.pc[t])] # "none"

Event(lock, held, try) == [lock |-> lock, held |-> held, try |-> try]

\* LOCK(cs): the thread has the lock and goes on
Acquire(th, t, next) ==
    [th EXCEPT !.owner[LockAt(th.pc[t])] = t,
               !.events[t] = Append(@, Event(LockAt(th.pc[t]), Held(th, t), FALSE)),
               !.pc[t] = next]

\* { TRY_LOCK(cs_main, locked); nHeight = chainActive.Tip()->nHeight; }: the lock
\* is taken, the tip height read and the lock released at the end of the scope
ReadTip(th, t, tip, next) ==
    [th EXCEPT !.nHeight[t] = tip,
               !.events[t] = Append(@, Event("cs_main", Held(th, t), IsTryLock(th.pc[t]))),
               !.pc[t] = next]

Release(th, t, locks) ==
    [th EXCEPT !.owner = [l \in Locks |-> IF l \in locks /\ @[l] = t THEN "none" ELSE @[l]]]

\* the call returns: the locks of its scopes are released
Return(th, t, out) ==
    [Release(th, t, Locks \ {"cs_main"}) EXCEPT !.pc[t] = "done", !.out[t] = out]

Outcome(outcome) == [NoOut EXCEPT !.outcome = outcome]

\* Mutant: Sync reports an empty list when it finds no tip
NoTipButSsc(op) ==
    IF op = "Sync" THEN [NoOut EXCEPT !.outcome = "no_tip", !.ssc = 0]
    ELSE Outcome("no_tip")

\* what a call has done when TRY_LOCK(cs_main) fails or there is no tip
NoTip(op) == Outcome("no_tip")

\* The scope that reads the tip height: cs_main is free and the tip is read, or
\* TRY_LOCK fails and the call returns; a LOCK waits
TipScope(t, op, next) ==
    IF threads.owner["cs_main"] = "none"
    THEN threads' = ReadTip(threads, t, tipHeight, next)
    ELSE /\ IsTryLock(threads.pc[t])
         /\ threads' = Return(threads, t, NoTip(op))

\* a stored vote of one of the heights is not counted by the tally of its height
Half(votes, blocks, heights) ==
    \E v \in votes :
        /\ v.nBlockHeight \in heights
        /\ LET h == v.nBlockHeight
               n == Cardinality({u \in votes : /\ u.nBlockHeight = h
                                               /\ u.payeeLevel = v.payeeLevel
                                               /\ u.payee = v.payee})
           IN  ~(/\ h \in DOMAIN blocks
                 /\ \E i \in 1..Len(blocks[h]) :
                       /\ blocks[h][i].mnlevel = v.payeeLevel
                       /\ blocks[h][i].scriptPubKey = v.payee
                       /\ blocks[h][i].nVotes = n)

Obs(votes, blocks, heights) == IF Half(votes, blocks, heights) THEN "half" ELSE "whole"

AllHeights == 0..6000

\* the registry the threads find: mnodeman.size(), CountEnabled of the level
RegistrySize == 800

\* what the threads leave alone
Rest == <<nLastBlockHeight, fileDat, txNew, sporks, ret, vRecv, vInventoryToSend>>

\* ProcessMessageMasternodePayments("mnw") and AddWinningMasternode, for a vote
\* that is valid, signed and ranked
Handler(t) ==
    /\ UNCHANGED Rest
    /\ LET th == threads
           w == th.winner[t]
           h == w.nBlockHeight
       IN  \/ /\ th.pc[t] = "L441"
              /\ TipScope(t, "mnw", "L490")
              /\ UNCHANGED <<mapMasternodePayeeVotes, mapMasternodeBlocks, tipHeight>>
           \/ /\ th.pc[t] = "L490"
              /\ threads' = (IF w \in mapMasternodePayeeVotes THEN Return(th, t, Outcome("seen"))
                             ELSE IF OutOfRange(h, th.nHeight[t], RegistrySize)
                             THEN Return(th, t, Outcome("out_of_range"))
                             ELSE [th EXCEPT !.pc[t] = "L512"])
              /\ UNCHANGED <<mapMasternodePayeeVotes, mapMasternodeBlocks, tipHeight>>
           \/ /\ th.pc[t] = "L512"
              /\ threads' = (IF ~CanVote(mapMasternodePayeeVotes, w.vinMasternode, h,
                                         w.payeeLevel)
                             THEN Return(th, t, Outcome("already_voted"))
                             ELSE IF ~GetBlockHash(tipHeight, h - RankOffset)
                             THEN Return(th, t, Outcome("no_block_hash"))
                             ELSE [th EXCEPT !.pc[t] = "L610a"])
              /\ UNCHANGED <<mapMasternodePayeeVotes, mapMasternodeBlocks, tipHeight>>
           \/ /\ th.pc[t] \in {"L610a", "L610b"}
              /\ th.owner[LockAt(th.pc[t])] = "none"
              /\ threads' = Acquire(th, t, IF th.pc[t] = "L610a" THEN "L610b" ELSE "L612")
              /\ UNCHANGED <<mapMasternodePayeeVotes, mapMasternodeBlocks, tipHeight>>
           \/ /\ th.pc[t] = "L612"
              /\ IF w \in mapMasternodePayeeVotes
                 THEN /\ threads' = Return(th, t, Outcome("duplicate"))
                      /\ UNCHANGED <<mapMasternodePayeeVotes, mapMasternodeBlocks>>
                 ELSE /\ mapMasternodePayeeVotes' = mapMasternodePayeeVotes \cup {w}
                      /\ mapMasternodeBlocks' =
                            [k \in DOMAIN mapMasternodeBlocks \cup {h} |->
                                IF k \in DOMAIN mapMasternodeBlocks
                                THEN mapMasternodeBlocks[k] ELSE <<>>]
                      /\ threads' = [Release(th, t, Locks \ {"cs_main"}) EXCEPT
                                       !.pc[t] = "L624"]
              /\ UNCHANGED tipHeight
           \/ /\ th.pc[t] = "L624"
              \* the tally is written with no lock held: when another thread is inside
              \* cs_mapMasternodeBlocks the write races with it, and may be lost
              /\ \E counted \in (IF th.owner["cs_mapMasternodeBlocks"] = "none"
                                 THEN {TRUE} ELSE BOOLEAN) :
                    mapMasternodeBlocks' = (IF counted THEN TallyWith(mapMasternodeBlocks, w)
                                            ELSE mapMasternodeBlocks)
              /\ threads' = Return(th, t, [Outcome("admitted") EXCEPT !.relay = {w}])
              /\ UNCHANGED <<mapMasternodePayeeVotes, tipHeight>>

\* The block processing thread: its caller holds cs_main, the block after the tip
\* is checked by CMasternodePayments::IsTransactionValid and connected
BlockThread ==
    /\ UNCHANGED Rest
    /\ LET th == threads
           t == "block"
           nBlockHeight == tipHeight + 1
           tx == Tx(<<Out(1, Required(LevelMax))>>, FALSE)
       IN  \/ /\ th.pc[t] \in {"main", "L751", "L631"}
              /\ th.owner[LockAt(th.pc[t])] = "none"
              /\ threads' = Acquire(th, t, CASE th.pc[t] = "main" -> "L751"
                                             [] th.pc[t] = "L751" -> "L753"
                                             [] th.pc[t] = "L631" -> "L633")
              /\ UNCHANGED <<mapMasternodePayeeVotes, mapMasternodeBlocks, tipHeight>>
           \/ /\ th.pc[t] = "L753"
              /\ threads' = (IF nBlockHeight \in DOMAIN mapMasternodeBlocks
                             THEN [th EXCEPT !.pc[t] = "L631"]
                             ELSE [Release(th, t, {"cs_mapMasternodeBlocks"}) EXCEPT
                                      !.pc[t] = "connect",
                                      !.out[t] = [Outcome("no_tally") EXCEPT
                                         !.result = TRUE,
                                         !.obs = Obs(mapMasternodePayeeVotes,
                                                     mapMasternodeBlocks, {nBlockHeight})]])
              /\ UNCHANGED <<mapMasternodePayeeVotes, mapMasternodeBlocks, tipHeight>>
           \/ /\ th.pc[t] = "L633"
              /\ threads' = [Release(th, t, {"cs_mapMasternodeBlocks", "cs_vecPayments"}) EXCEPT
                                !.pc[t] = "connect",
                                !.out[t] = [Outcome("checked") EXCEPT
                                   !.result = BlockPayeesIsTransactionValid(
                                                  mapMasternodeBlocks[nBlockHeight], tx,
                                                  nBlockHeight, GetBlockValue(nBlockHeight),
                                                  FALSE),
                                   !.obs = Obs(mapMasternodePayeeVotes, mapMasternodeBlocks,
                                               {nBlockHeight})]]
              /\ UNCHANGED <<mapMasternodePayeeVotes, mapMasternodeBlocks, tipHeight>>
           \/ /\ th.pc[t] = "connect"
              /\ tipHeight' = (IF th.out[t].result THEN tipHeight + 1 ELSE tipHeight)
              /\ threads' = [Release(th, t, {"cs_main"}) EXCEPT !.pc[t] = "done"]
              /\ UNCHANGED <<mapMasternodePayeeVotes, mapMasternodeBlocks>>

\* The builder's lookup: GetBlockPayee takes no lock
Miner ==
    /\ UNCHANGED Rest
    /\ LET t == "miner"
           found == GetBlockPayee(mapMasternodeBlocks, tipHeight + 1, LevelMax).found
       IN  /\ threads.pc[t] = "L565"
           /\ threads' = Return(threads, t,
                                [Outcome("looked_up") EXCEPT
                                   !.result = found,
                                   !.obs = Obs(mapMasternodePayeeVotes, mapMasternodeBlocks,
                                               {tipHeight + 1})])
           /\ UNCHANGED <<mapMasternodePayeeVotes, mapMasternodeBlocks, tipHeight>>

\* The votes Sync announces; counts is CountEnabledByLevels
\* a selection that does not cap the window at nCountNeeded
SyncInvUncapped(votes, nHeight, nCountNeeded, counts) ==
    LET mn_counts == [l \in Levels |-> Times125(counts[l])]
    IN  {v \in votes : /\ v.nBlockHeight >= nHeight - mn_counts[v.payeeLevel]
                       /\ v.nBlockHeight <= nHeight + FutureWindow}

SyncInv(votes, nHeight, nCountNeeded, counts) ==
    LET mn_counts == [l \in Levels |-> Min(nCountNeeded, Times125(counts[l]))]
    IN  {v \in votes : /\ v.nBlockHeight >= nHeight - mn_counts[v.payeeLevel]
                       /\ v.nBlockHeight <= nHeight + FutureWindow}

\* CMasternodePayments::Sync
SyncThread ==
    /\ UNCHANGED Rest
    /\ LET th == threads
           t == "sync"
           inv == SyncInv(mapMasternodePayeeVotes, th.nHeight[t], 2 * RegistrySize,
                          [l \in Levels |-> RegistrySize])
       IN  /\ \/ /\ th.pc[t] = "L946"
                 /\ th.owner[LockAt(th.pc[t])] = "none"
                 /\ threads' = Acquire(th, t, "L950")
              \/ /\ th.pc[t] = "L950"
                 /\ TipScope(t, "Sync", "L962")
              \/ /\ th.pc[t] = "L962"
                 /\ threads' = Return(th, t,
                                      [Outcome("synced") EXCEPT
                                         !.pushed = inv,
                                         !.ssc = Cardinality(inv),
                                         !.obs = Obs(mapMasternodePayeeVotes,
                                                     mapMasternodeBlocks,
                                                     {v.nBlockHeight : v \in inv})])
           /\ UNCHANGED <<mapMasternodePayeeVotes, mapMasternodeBlocks, tipHeight>>

\* CMasternodePayments::CleanPaymentList, called by the timer
Prune ==
    /\ UNCHANGED Rest
    /\ LET th == threads
           t == "prune"
           st == Store(mapMasternodePayeeVotes, mapMasternodeBlocks)
           out == CleanPaymentList(st, th.nHeight[t], TRUE, RegistrySize)
       IN  \/ /\ th.pc[t] \in {"L762a", "L762b"}
              /\ th.owner[LockAt(th.pc[t])] = "none"
              /\ threads' = Acquire(th, t, IF th.pc[t] = "L762a" THEN "L762b" ELSE "L766")
              /\ UNCHANGED <<mapMasternodePayeeVotes, mapMasternodeBlocks, tipHeight>>
           \/ /\ th.pc[t] = "L766"
              /\ TipScope(t, "CleanPaymentList", "L774")
              /\ UNCHANGED <<mapMasternodePayeeVotes, mapMasternodeBlocks, tipHeight>>
           \/ /\ th.pc[t] = "L774"
              /\ mapMasternodePayeeVotes' = out.st.votes
              /\ mapMasternodeBlocks' = out.st.blocks
              /\ threads' = Return(th, t,
                                   [Outcome("cleaned") EXCEPT
                                      !.obs = Obs(mapMasternodePayeeVotes, mapMasternodeBlocks,
                                                  AllHeights)])
              /\ UNCHANGED tipHeight

\* The loop of IsScheduled: a tally of the next heights names the masternode
IsScheduled(blocks, nHeight, level, mnpayee, nNotBlockHeight) ==
    \E h \in nHeight..(nHeight + 8) :
        /\ h # nNotBlockHeight
        /\ h \in DOMAIN blocks
        /\ GetPayee(blocks[h], level).found
        /\ GetPayee(blocks[h], level).payee = mnpayee

\* CMasternodePayments::IsScheduled, asked for the masternode paid at script 1
Sched ==
    /\ UNCHANGED Rest
    /\ LET th == threads
           t == "sched"
       IN  /\ \/ /\ th.pc[t] = "L576"
                 /\ th.owner[LockAt(th.pc[t])] = "none"
                 /\ threads' = Acquire(th, t, "L580")
              \/ /\ th.pc[t] = "L580"
                 /\ TipScope(t, "IsScheduled", "L588")
              \/ /\ th.pc[t] = "L588"
                 /\ threads' = Return(th, t,
                                      [Outcome("looked_up") EXCEPT
                                         !.result = IsScheduled(mapMasternodeBlocks,
                                                        th.nHeight[t], LevelMax, 1, 0),
                                         !.obs = Obs(mapMasternodePayeeVotes,
                                                     mapMasternodeBlocks,
                                                     th.nHeight[t]..(th.nHeight[t] + 8))])
           /\ UNCHANGED <<mapMasternodePayeeVotes, mapMasternodeBlocks, tipHeight>>

\* the heights the two votes are for: the oldest the window admits, and the next
ThreadHeights == {4000, 5001}

\* Two peers send the two votes of voter 1 for one height and level, naming the
\* payees 1 and 2, while a block arrives, a block is built, a peer asks for the
\* list, the timer prunes and the registry asks IsScheduled
InitThreads ==
    /\ mapMasternodePayeeVotes = {}
    /\ mapMasternodeBlocks = NoBlocks
    /\ nLastBlockHeight = 0
    /\ tipHeight = 5000
    /\ fileDat = NoFile
    /\ txNew = NoTx
    /\ sporks = {}
    /\ ret = NoRet
    /\ vRecv = NoMessage
    /\ vInventoryToSend = NoInventory
    /\ \E h \in ThreadHeights :
          threads = ThreadState(
                        [t \in Threads |->
                            CASE t \in Handlers -> "L441"
                              [] t = "block" -> "main"
                              [] t = "miner" -> "L565"
                              [] t = "sync" -> "L946"
                              [] t = "prune" -> "L762a"
                              [] t = "sched" -> "L576"],
                        [t \in Handlers |->
                            Winner(1, h, IF t = "net1" THEN 1 ELSE 2, LevelMax)])

NextThreads ==
    \/ \E t \in Handlers : Handler(t)
    \/ BlockThread
    \/ Miner
    \/ SyncThread
    \/ Prune
    \/ Sched

SpecThreads == InitThreads /\ [][NextThreads]_vars

---------------------------------------------------------------------------
(* One inbound message at a time: a peer sends an mnw message, the collaborators *)
(* hold their answers, and the handler runs on it                                *)

\* The answers that differ in something the handler reads: an answer that is never
\* read (the rank of an unknown voter, the lock when the signature is good) is fixed
Answers ==
    UNION {
        {[Agreeing(l, n) EXCEPT !.payeeKnown = FALSE],
         [Agreeing(l, n) EXCEPT !.known = FALSE, !.rank = -1],
         [Agreeing(l, n) EXCEPT !.protoOk = FALSE, !.rank = -1]}
        \cup {[Agreeing(l, n) EXCEPT !.rank = r] : r \in Ranks}
        \cup {[Agreeing(l, n) EXCEPT !.rank = r, !.fSynced = FALSE] :
                 r \in {k \in Ranks : k > MNPAYMENTS_SIGNATURES_TOTAL * 2}}
        \cup {[Agreeing(l, n) EXCEPT !.sigOk = FALSE, !.fSynced = x[1], !.locked = x[2]] :
                 x \in BOOLEAN \X BOOLEAN} :
        l \in BOOLEAN, n \in MnCounts}

\* a peer sends an mnw message for one of the heights while no other is being
\* handled, the collaborators holding one of the answers
Sends(heights, answers) ==
    /\ vRecv = NoMessage
    /\ \E vin \in Voters, h \in heights, payee \in PeerScripts, level \in MsgLevels,
          e \in answers :
          vRecv' = [msg |-> Message(vin, h, payee, level), env |-> e]
    /\ ret' = Ret("recv", "none")
    /\ UNCHANGED <<mapMasternodePayeeVotes, mapMasternodeBlocks, nLastBlockHeight,
                   tipHeight, fileDat, txNew, sporks, threads, vInventoryToSend>>

PeerSends == Sends(VoteHeights, Answers)

\* the handler runs on the message received
Receive ==
    /\ vRecv # NoMessage
    /\ ret.op = "recv"
    /\ \/ \E why \in EarlyReturns : Dropped(Ret("mnw", why))
       \/ HandleWinner(vRecv.msg, Only(vRecv.env))

\* winner.Relay(): the inventory of the hashes in relay is pushed to the peers
RelayInv(inv, relay) ==
    [w \in DOMAIN inv \cup relay |->
        (IF w \in DOMAIN inv THEN inv[w] ELSE 0) + (IF w \in relay THEN 1 ELSE 0)]

\* the call has returned: the message is gone, what it relayed is with the peers
Returned ==
    /\ vRecv # NoMessage
    /\ ret.op \in {"mnw", "ProcessBlock"}
    /\ vRecv' = NoMessage
    /\ ret' = NoRet
    /\ vInventoryToSend' = RelayInv(vInventoryToSend, ret.relay)
    /\ UNCHANGED <<mapMasternodePayeeVotes, mapMasternodeBlocks, nLastBlockHeight,
                   tipHeight, fileDat, txNew, sporks, threads>>

InitInbound == Init

NextInbound ==
    \/ PeerSends
    \/ Receive
    \/ Returned

SpecInbound == InitInbound /\ [][NextInbound]_vars

---------------------------------------------------------------------------
(* The admission window as a function of the height, the tip and the count *)

\* tips: a chain younger than the window is long, and two tips beyond it
WindowTips == {1000, 5000, 5001}
\* counts CountEnabled reports: multiples of 4 and the counts between them
WindowCounts == 796..804
\* heights named in votes: around the lower edge, at the upper edge, beyond it; a
\* height off the wire is an int and may be negative
WindowHeights(tip) == ((tip - 1007)..(tip - 993)) \cup {tip + FutureWindow,
                                                        tip + FutureWindow + 1}

\* the window check of the handler on a vote for height h
CheckWindow ==
    /\ \E h \in WindowHeights(tipHeight), n \in WindowCounts :
          ret' = [Ret("window", IF OutOfRange(h, tipHeight, n)
                                THEN "out_of_range" ELSE "in_range")
                    EXCEPT !.height = h, !.args = [nEnabled |-> n]]
    /\ UNCHANGED <<mapMasternodePayeeVotes, mapMasternodeBlocks, nLastBlockHeight,
                   tipHeight, fileDat, txNew, sporks, threads, vRecv, vInventoryToSend>>

InitWindow ==
    /\ mapMasternodePayeeVotes = {}
    /\ mapMasternodeBlocks = NoBlocks
    /\ nLastBlockHeight = 0
    /\ tipHeight \in WindowTips
    /\ fileDat = NoFile
    /\ threads = NoThreads
    /\ vRecv = NoMessage
    /\ vInventoryToSend = NoInventory
    /\ txNew = NoTx
    /\ sporks = {}
    /\ ret = NoRet

NextWindow == CheckWindow

SpecWindow == InitWindow /\ [][NextWindow]_vars

---------------------------------------------------------------------------
(* Inbound messages over time: votes arrive, are relayed, are pruned when the    *)
(* tip has moved on, and arrive again                                            *)

\* the relays followed
MaxRelayed == 3

\* how many hashes have been relayed, each counted as often as it was
RECURSIVE Relays(_)
Relays(inv) ==
    IF DOMAIN inv = {} THEN 0
    ELSE LET w == CHOOSE x \in DOMAIN inv : TRUE
         IN  inv[w] + Relays([x \in DOMAIN inv \ {w} |-> inv[x]])

\* heights named in the votes: the edges of the horizon and of the window at tip
\* 5000 with a registry of 800, and the heights next to them
RelayHeights == {3999, 4000, 5020, 5021}

\* a peer sends a vote whose payee and voter the registry knows, rightly signed
PeerSendsVote ==
    /\ Relays(vInventoryToSend) < MaxRelayed
    /\ Sends(RelayHeights, {Agreeing(FALSE, n) : n \in MnCounts})

\* CleanPaymentList runs between two messages
CleanBetween == vRecv = NoMessage /\ Clean

\* the tip moves between two messages
SetTipBetween == vRecv = NoMessage /\ SetTip

\* the counts a syncing peer is served with: nCountNeeded below and above the
\* windows of the levels
SyncCounts == {800, 2000}

\* what CountEnabledByLevels reports: the masternodes of the top level, none of
\* the other levels
EnabledByLevels == {[l \in Levels |-> IF l = LevelMax THEN n ELSE 0] :
                       n \in {0} \cup MnCounts}

\* CMasternodePayments::Sync(node, nCountNeeded) between two messages; locked:
\* TRY_LOCK(cs_main) succeeds and the chain has a tip. What the peer is sent is
\* recorded: the inventory pushed and the messages pushed after it
Sync ==
    /\ vRecv = NoMessage
    /\ \E locked \in BOOLEAN :
       \E nCountNeeded \in IF locked THEN SyncCounts ELSE {0} :
       \E counts \in IF locked THEN EnabledByLevels ELSE {[l \in Levels |-> 0]} :
          LET inv == SyncInv(mapMasternodePayeeVotes, tipHeight, nCountNeeded, counts)
          IN  ret' = IF ~locked THEN Ret("Sync", "no_tip")
                     ELSE [Ret("Sync", "synced") EXCEPT
                             !.args = [nCountNeeded |-> nCountNeeded, counts |-> counts],
                             !.value = [pushed |-> inv,
                                        messages |-> <<<<"ssc", "MASTERNODE_SYNC_MNW",
                                                        Cardinality(inv)>>>>]]
    /\ UNCHANGED <<mapMasternodePayeeVotes, mapMasternodeBlocks, nLastBlockHeight,
                   tipHeight, fileDat, txNew, sporks, threads, vRecv, vInventoryToSend>>

InitRelay == Init

NextRelay ==
    \/ PeerSendsVote
    \/ Receive
    \/ Returned
    \/ CleanBetween
    \/ SetTipBetween

SpecRelay == InitRelay /\ [][NextRelay]_vars

InitSync == Init

NextSync ==
    \/ PeerSendsVote
    \/ Receive
    \/ Returned
    \/ CleanBetween
    \/ SetTipBetween
    \/ Sync

SpecSync == InitSync /\ [][NextSync]_vars

---------------------------------------------------------------------------
(* One ProcessBlock at a time: the block processor asks for the votes of a       *)
(* height, the node and its collaborators hold their answers, ProcessBlock runs  *)

\* the block processor asks for the votes of a height ahead of the tip
BlockNotified ==
    /\ vRecv = NoMessage
    /\ \E h \in VoteHeights, e \in [fMasterNode : BOOLEAN, n : Ranks, keyOk : BOOLEAN,
                                    isBudget : BOOLEAN, queue : QueueChoices,
                                    signOk : BOOLEAN] :
          /\ h > tipHeight
          /\ h <= tipHeight + FutureWindow
          /\ vRecv' = [msg |-> [nBlockHeight |-> h], env |-> e]
    /\ ret' = Ret("block", "none")
    /\ UNCHANGED <<mapMasternodePayeeVotes, mapMasternodeBlocks, nLastBlockHeight,
                   tipHeight, fileDat, txNew, sporks, threads, vInventoryToSend>>

\* ProcessBlock runs for the height asked for
Produce ==
    /\ vRecv # NoMessage
    /\ ret.op = "block"
    /\ ProcessBlock(vRecv.msg.nBlockHeight, Only(vRecv.env))

InitProduce ==
    /\ mapMasternodePayeeVotes = {}
    /\ mapMasternodeBlocks = NoBlocks
    /\ nLastBlockHeight = 0
    /\ tipHeight = 5001
    /\ fileDat = NoFile
    /\ threads = NoThreads
    /\ vRecv = NoMessage
    /\ vInventoryToSend = NoInventory
    /\ txNew = NoTx
    /\ sporks = {}
    /\ ret = NoRet

NextProduce ==
    \/ BlockNotified
    \/ Produce
    \/ Returned

SpecProduce == InitProduce /\ [][NextProduce]_vars

---------------------------------------------------------------------------
(* Properties of the election store (checked under Spec) *)

VotesFor(votes, h, level, script) ==
    {v \in votes : v.nBlockHeight = h /\ v.payeeLevel = level /\ v.payee = script}

RecordsOf(vec, level) == {i \in 1..Len(vec) : vec[i].mnlevel = level}

\* C1: no two stored votes share (voter, height, level): one voter, one vote, per
\* level, per height, whatever sequence of inbound votes, produced votes and prunes
C1_OneVotePerVoterHeightTier ==
    \A v1, v2 \in mapMasternodePayeeVotes :
        (/\ v1.vinMasternode = v2.vinMasternode
         /\ v1.nBlockHeight = v2.nBlockHeight
         /\ v1.payeeLevel = v2.payeeLevel) => v1 = v2

\* C2: every payee record counts exactly the stored votes of its (height, level,
\* script); every stored vote has exactly one record; no tally is without votes
C2_TallyMatchesVotes ==
    /\ DOMAIN mapMasternodeBlocks = {v.nBlockHeight : v \in mapMasternodePayeeVotes}
    /\ \A h \in DOMAIN mapMasternodeBlocks :
       \A i \in 1..Len(mapMasternodeBlocks[h]) :
          LET p == mapMasternodeBlocks[h][i]
          IN  /\ p.nVotes = Cardinality(VotesFor(mapMasternodePayeeVotes, h, p.mnlevel,
                                                 p.scriptPubKey))
              /\ p.nVotes >= 1
              /\ \A j \in 1..Len(mapMasternodeBlocks[h]) :
                    (/\ mapMasternodeBlocks[h][j].mnlevel = p.mnlevel
                     /\ mapMasternodeBlocks[h][j].scriptPubKey = p.scriptPubKey) => j = i

\* C2 witness: a prune has erased a vote and its tally and kept another vote, whose
\* record still counts it
C2_Witness ==
    /\ ret.op = "CleanPaymentList"
    /\ ret.unseen # {}
    /\ \E v \in mapMasternodePayeeVotes :
       \E i \in 1..Len(mapMasternodeBlocks[v.nBlockHeight]) :
          /\ mapMasternodeBlocks[v.nBlockHeight][i].scriptPubKey = v.payee
          /\ mapMasternodeBlocks[v.nBlockHeight][i].nVotes = 1

StoredHeights == {v.nBlockHeight : v \in mapMasternodePayeeVotes}
                     \cup DOMAIN mapMasternodeBlocks

\* C7 as claimed: after a prune every stored height H has tip - N <= H <= tip + 20
C7_HorizonAfterPrune ==
    (ret.op = "CleanPaymentList" /\ ret.outcome = "cleaned") =>
        \A h \in StoredHeights :
            tipHeight - ret.nLimit <= h /\ h <= tipHeight + FutureWindow

\* C7 as amended: after a prune that read the tip every stored height H has
\* H >= tip - N, N = max(floor(1.25 x registry size), 1000); the prune enforces no
\* upper bound
C7_LowerHorizonAfterPrune ==
    (ret.op = "CleanPaymentList" /\ ret.outcome = "cleaned") =>
        /\ \E n \in MnCounts :
              ret.nLimit = (IF (5 * n) \div 4 > 1000 THEN (5 * n) \div 4 ELSE 1000)
        /\ \A h \in StoredHeights : h >= tipHeight - ret.nLimit

\* C7 witness: a prune has kept a vote exactly N blocks behind the tip
C7_Witness ==
    /\ ret.op = "CleanPaymentList" /\ ret.outcome = "cleaned"
    /\ \E v \in mapMasternodePayeeVotes : v.nBlockHeight = tipHeight - ret.nLimit

---------------------------------------------------------------------------
(* Properties of the tally check and the builder (checked under SpecPay) *)

NextHeight == tipHeight + 1

NextTally == IF NextHeight \in DOMAIN mapMasternodeBlocks
             THEN mapMasternodeBlocks[NextHeight] ELSE <<>>

\* the records that count: six votes, and the top level only when the new tiers
\* are off
Counted(p) ==
    /\ p.nVotes >= 6
    /\ (p.mnlevel = LevelMax \/ "SPORK_18_NEW_MASTERNODE_TIERS" \in sporks)

CountedTiers == {NextTally[i].mnlevel : i \in {j \in 1..Len(NextTally) : Counted(NextTally[j])}}

Reverse(seq) == [i \in 1..Len(seq) |-> seq[Len(seq) + 1 - i]]

\* C3: the tally check returns false only if some record of the height has 6 votes
\* or more; with no tally, or with every record below 6 votes, it returns true
C3_QuorumFloor ==
    ret.op = "IsTransactionValid" =>
        /\ ~ret.result => \E i \in 1..Len(NextTally) : NextTally[i].nVotes >= 6
        /\ (\A i \in 1..Len(NextTally) : NextTally[i].nVotes < 6) => ret.result

\* C3 witness: every record of the tally is one vote short, the transaction pays
\* nobody, and it is accepted
C3_Witness ==
    /\ ret.op = "IsTransactionValid"
    /\ Len(NextTally) = 2
    /\ \A i \in 1..Len(NextTally) : NextTally[i].nVotes = 5
    /\ txNew.vout = <<>>
    /\ ret.result

\* C4: with a counted record, the check returns true exactly when every counted
\* tier has a counted record paid by some output at least the amount required for
\* the tier; the order of records and outputs does not matter
C4_EveryCountedTierPaid ==
    (ret.op = "IsTransactionValid" /\ CountedTiers # {}) =>
        /\ ret.result =
              \A tier \in CountedTiers :
                 \E i \in 1..Len(NextTally), k \in 1..Len(txNew.vout) :
                    /\ Counted(NextTally[i])
                    /\ NextTally[i].mnlevel = tier
                    /\ txNew.vout[k].scriptPubKey = NextTally[i].scriptPubKey
                    /\ txNew.vout[k].nValue >= Required(tier)
        /\ ret.result =
              BlockPayeesIsTransactionValid(Reverse(NextTally),
                  Tx(Reverse(txNew.vout), txNew.coinstake), NextHeight,
                  GetBlockValue(NextHeight), txNew.coinstake)

\* C4 witness: two tiers are counted, the outputs pay them in the other order, one
\* of them more than required, and the transaction is accepted
C4_Witness ==
    /\ ret.op = "IsTransactionValid"
    /\ ret.result
    /\ Cardinality(CountedTiers) = 2
    /\ Len(txNew.vout) = 2
    /\ txNew.vout[1].scriptPubKey = NextTally[2].scriptPubKey
    /\ txNew.vout[2].scriptPubKey = NextTally[1].scriptPubKey
    /\ txNew.vout[1].scriptPubKey # txNew.vout[2].scriptPubKey
    /\ \E k \in 1..2 : txNew.vout[k].nValue > Required(LevelMax - 1)
                       /\ txNew.vout[k].scriptPubKey = 
                            (CHOOSE s \in PeerScripts :
                                \E i \in 1..2 : /\ NextTally[i].mnlevel = LevelMax - 1
                                                /\ NextTally[i].scriptPubKey = s)

\* C5: when a (tier, script) of the height has 6 votes, the transaction
\* FillBlockPayee produces for the height passes IsTransactionValid
C5_BuilderPassesValidator ==
    (/\ ret.op = "FillBlockPayee"
     /\ \E i \in 1..Len(NextTally) : NextTally[i].nVotes >= 6) =>
        IsTransactionValid(mapMasternodeBlocks, txNew, NextHeight,
                           GetBlockValue(NextHeight), txNew.coinstake)

\* C5 witness: a split coinstake has been filled with the payees of two counted
\* tiers, and the registry's current masternode of the top tier is another one
C5_Witness ==
    /\ ret.op = "FillBlockPayee"
    /\ txNew.coinstake
    /\ Len(ret.txBefore.vout) = 3
    /\ Cardinality(CountedTiers) = 2
    /\ Len(txNew.vout) = 5
    /\ txNew.vout[5].scriptPubKey = 2

\* C6 as claimed: after FillBlockPayee the outputs sum to block value + fees
\* (Proof-of-Work), to the sum of the outputs before the call (Proof-of-Stake)
C6_ValueConserved ==
    ret.op = "FillBlockPayee" =>
        IF txNew.coinstake
        THEN SumOut(txNew.vout) = SumOut(ret.txBefore.vout)
        ELSE SumOut(txNew.vout) = GetBlockValue(NextHeight) + ret.nFees

\* C6 as amended: on the Proof-of-Work path the outputs sum to the block value
\* once a tier is paid (the fees are not added) and the transaction is unchanged
\* when none is; on the Proof-of-Stake path the sum is the one before the call
\* unless the stake is a zerocoin mint, which is left whole while the payments
\* are added
C6_ValueConservedButFeesAndMint ==
    ret.op = "FillBlockPayee" =>
        LET before == ret.txBefore.vout
            after == txNew.vout
        IN  IF ~txNew.coinstake
            THEN IF Len(after) > 1 THEN SumOut(after) = GetBlockValue(NextHeight)
                 ELSE after = before
            ELSE IF IsZerocoinMint(before[2])
            THEN /\ SubSeq(after, 1, Len(before)) = before
                 /\ \A k \in Len(before) + 1 .. Len(after) :
                       \E level \in Levels :
                          after[k].nValue =
                             GetMasternodePayment(NextHeight, GetBlockValue(NextHeight),
                                                  TRUE, level, 0, TRUE)
            ELSE SumOut(after) = SumOut(before)

\* C6 witness: two payments have been taken from a stake split in three, neither
\* a multiple of three
C6_Witness ==
    /\ ret.op = "FillBlockPayee"
    /\ txNew.coinstake
    /\ Len(ret.txBefore.vout) = 4
    /\ Len(txNew.vout) = 6
    /\ txNew.vout[5].nValue % 3 # 0
    /\ txNew.vout[6].nValue % 3 # 0
    /\ txNew.vout[4].nValue < txNew.vout[3].nValue - 1000

---------------------------------------------------------------------------
(* Properties of IsBlockPayeeValid (checked under SpecPayee) *)

\* what the tally check says of the block in hand
TallyOk ==
    IsTransactionValid(mapMasternodeBlocks, txNew, NextHeight, GetBlockValue(NextHeight),
                       txNew.coinstake)

\* the budget is asked: synced, superblocks enabled, a budget-payment height
BudgetAsked ==
    /\ ret.args.fSynced
    /\ "SPORK_13_ENABLE_SUPERBLOCKS" \in sporks
    /\ ret.args.isBudget

\* C9 as claimed: synced, neither a budget-payment nor a treasury height: the
\* result is the result of the tally check; a treasury height is accepted
C9_PayeeValidIsTallyCheck ==
    ret.op = "IsBlockPayeeValid" =>
        /\ (ret.args.fSynced /\ ~ret.args.isBudget /\ ~ret.args.isTreasury) =>
              ret.result = TallyOk
        /\ (~ret.args.isBudget /\ ret.args.isTreasury) => ret.result

\* C9 as amended: synced, neither a budget-payment nor a treasury height: the
\* result is the result of the tally check when MASTERNODE_PAYMENT_ENFORCEMENT is
\* active, and acceptance when it is not; a treasury height is accepted
C9_PayeeValidIsEnforcedTallyCheck ==
    ret.op = "IsBlockPayeeValid" =>
        /\ (ret.args.fSynced /\ ~ret.args.isBudget /\ ~ret.args.isTreasury) =>
              ret.result = IF "SPORK_8_MASTERNODE_PAYMENT_ENFORCEMENT" \in sporks
                           THEN TallyOk ELSE TRUE
        /\ (~ret.args.isBudget /\ ret.args.isTreasury) => ret.result

\* C9 witness: enforcement is active, the payee with the quorum is not paid, and
\* the block is rejected at an ordinary height
C9_Witness ==
    /\ ret.op = "IsBlockPayeeValid"
    /\ ret.args.fSynced /\ ~ret.args.isBudget /\ ~ret.args.isTreasury
    /\ "SPORK_8_MASTERNODE_PAYMENT_ENFORCEMENT" \in sporks
    /\ ~TallyOk
    /\ ~ret.result

\* C10: the budget asked, Valid accepts whatever the tally says, InValid with
\* BUDGET_ENFORCEMENT active rejects, every other answer leaves the decision to
\* the treasury and tally rules; not synced, every block is accepted
C10_BudgetOverride ==
    ret.op = "IsBlockPayeeValid" =>
        /\ ~ret.args.fSynced => ret.result
        /\ BudgetAsked =>
              ret.result =
                 CASE ret.args.status = "Valid" -> TRUE
                   [] /\ ret.args.status = "InValid"
                      /\ "SPORK_9_MASTERNODE_BUDGET_ENFORCEMENT" \in sporks -> FALSE
                   [] OTHER ->
                        \/ ret.args.isTreasury
                        \/ TallyOk
                        \/ "SPORK_8_MASTERNODE_PAYMENT_ENFORCEMENT" \notin sporks

\* C10 witness: the budget answers Valid for a block the enforced tally check
\* would reject, and the block is accepted
C10_Witness ==
    /\ ret.op = "IsBlockPayeeValid"
    /\ BudgetAsked
    /\ ret.args.status = "Valid"
    /\ ~ret.args.isTreasury
    /\ "SPORK_8_MASTERNODE_PAYMENT_ENFORCEMENT" \in sporks
    /\ ~TallyOk
    /\ ret.result

---------------------------------------------------------------------------
(* Properties of IsBlockValueValid (checked under SpecValue) *)

\* C11: on a block of known, non-treasury height: not synced, accept in the first
\* 100 blocks of a budget cycle, else iff minted <= expected; synced without
\* superblocks, iff minted <= expected; synced with superblocks at a budget-payment
\* height, accept; otherwise iff minted <= expected
C11_BlockValueDecision ==
    (/\ ret.op = "IsBlockValueValid" /\ ret.outcome = "none"
     /\ ret.value.nHeight # 0 /\ ~ret.args.isTreasury) =>
        LET within == ret.value.nMinted <= ret.value.nExpectedValue
        IN  ret.result =
               IF ~ret.args.fSynced
               THEN (ret.value.nHeight % 1000 < 100) \/ within
               ELSE IF "SPORK_13_ENABLE_SUPERBLOCKS" \notin sporks THEN within
               ELSE IF ret.args.isBudget THEN TRUE
               ELSE within

\* C11 witness: not synced, a block at position 100 of the cycle that mints one
\* unit too much is rejected
C11_Witness ==
    /\ ret.op = "IsBlockValueValid" /\ ret.outcome = "none"
    /\ ~ret.args.isTreasury /\ ~ret.args.fSynced
    /\ ret.value.nHeight % 1000 = 100
    /\ ret.value.nMinted = ret.value.nExpectedValue + 1
    /\ ~ret.result

---------------------------------------------------------------------------
(* Properties of the vote producer (checked under Spec) *)

\* C12: a ProcessBlock for a height at or below the last produced one produces and
\* relays nothing and leaves the store and the last produced height alone; a batch
\* is produced only for a height above it; the last produced height never falls
C12_ProducerIdempotent ==
    [][/\ nLastBlockHeight' >= nLastBlockHeight
       /\ (ret'.op = "ProcessBlock" /\ ret'.height <= nLastBlockHeight) =>
             /\ ret'.relay = {}
             /\ mapMasternodePayeeVotes' = mapMasternodePayeeVotes
             /\ mapMasternodeBlocks' = mapMasternodeBlocks
             /\ nLastBlockHeight' = nLastBlockHeight
       /\ (ret'.op = "ProcessBlock" /\ ret'.relay # {}) =>
             /\ ret'.height > nLastBlockHeight
             /\ nLastBlockHeight' = ret'.height]_vars

\* C12 witness: votes have been produced for a height, and a ProcessBlock for a
\* lower height has returned without a vote while the store had room for one
C12_Witness ==
    /\ ret.op = "ProcessBlock"
    /\ ret.outcome = "already_done"
    /\ ret.height < nLastBlockHeight
    /\ \E v \in mapMasternodePayeeVotes :
          v.vinMasternode = ActiveVin /\ v.nBlockHeight = nLastBlockHeight
    /\ Cardinality(mapMasternodePayeeVotes) < MaxVotes

\* C19: every vote that enters the store, from a peer or from ProcessBlock, met
\* the admission preconditions when it entered: its height in the window of the
\* tip, and no stored vote of its voter for the same height and level (signature,
\* registry and rank are inputs of the step, which admits on no other branch)
C19_AdmittedVotesPassedChecks ==
    [][\A w \in mapMasternodePayeeVotes' \ mapMasternodePayeeVotes :
          /\ w.nBlockHeight <= tipHeight + 20
          /\ \E n \in MnCounts : 4 * w.nBlockHeight >= 4 * tipHeight - 5 * n
          /\ ~\E v \in mapMasternodePayeeVotes :
                /\ v.vinMasternode = w.vinMasternode
                /\ v.nBlockHeight = w.nBlockHeight
                /\ v.payeeLevel = w.payeeLevel]_vars

---------------------------------------------------------------------------
(* Properties of repeated validation (checked under SpecAgain) *)

---------------------------------------------------------------------------
(* Properties of the snapshot file (checked under SpecDb) *)

HashOk(file) == file.hashIn = Hash(file.magic, file.net, file.body)

\* C17: Read reports the first failing check as its own kind, in the order file
\* not opened, checksum tail not read, checksum differs, magic string differs,
\* network tag differs, body not decoded, and Ok only when all pass; the target
\* store changes only after both header checks passed, and is empty after
\* IncorrectFormat
C17_ReadFailureKindsInOrder ==
    [][LET f == fileDat
           kind == ret'.outcome
           headerOk == f.magic = strMagicMessage /\ f.net = MessageStart
           changed == \/ mapMasternodePayeeVotes' # mapMasternodePayeeVotes
                      \/ mapMasternodeBlocks' # mapMasternodeBlocks
       IN  ret'.op = "Read" =>
             /\ kind = (IF f.state = "missing" THEN "FileError"
                        ELSE IF ~f.tail THEN "HashReadError"
                        ELSE IF ~HashOk(f) THEN "IncorrectHash"
                        ELSE IF f.magic # strMagicMessage THEN "IncorrectMagicMessage"
                        ELSE IF f.net # MessageStart THEN "IncorrectMagicNumber"
                        ELSE IF ~f.body.ok THEN "IncorrectFormat"
                        ELSE "Ok")
             /\ changed => headerOk
             /\ kind = "IncorrectFormat" =>
                    mapMasternodePayeeVotes' = {} /\ mapMasternodeBlocks' = NoBlocks]_vars

---------------------------------------------------------------------------
(* Properties of the threads (checked under SpecThreads) *)

Readers == Threads \ Handlers

\* C13: admission is atomic for the other threads: the validator, the builder's
\* lookup, Sync, CleanPaymentList and IsScheduled never read or act on a store
\* that holds a vote its tally does not count
C13_AdmissionAtomic ==
    \A t \in Readers : threads.out[t].obs # "half"

\* C14: of two handlers given two different votes of one voter for one height and
\* level, at most one admits its vote
C14_OneOfTwoAdmitted ==
    ~(\A t \in Handlers : threads.out[t].outcome = "admitted")

Rank(lock) ==
    CASE lock = "cs_main" -> 1
      [] lock = "cs_mapMasternodePayeeVotes" -> 2
      [] lock = "cs_mapMasternodeBlocks" -> 3
      [] lock = "cs_vecPayments" -> 4

EventsOf(t) == {threads.events[t][i] : i \in 1..Len(threads.events[t])}

ElectionLocks == {"cs_mapMasternodePayeeVotes", "cs_mapMasternodeBlocks"}

TryLines == {"L441", "L580", "L766", "L950"}

\* C16: when TRY_LOCK(cs_main) fails the call returns at once and has changed
\* nothing: the vote is dropped with both maps as they were and nothing relayed,
\* CleanPaymentList erases nothing, IsScheduled returns false, Sync pushes nothing
C16_NoTipNoEffect ==
    [][\A t \in Threads :
          /\ (threads.pc[t] \in TryLines /\ threads.owner["cs_main"] # "none")
                => ~Waiting(threads, t)
          /\ (/\ threads.pc[t] \in TryLines
              /\ threads.owner["cs_main"] # "none"
              /\ threads'.pc[t] # threads.pc[t])
                => /\ threads'.pc[t] = "done"
                   /\ threads'.out[t].outcome = "no_tip"
          /\ (threads.pc[t] # "done" /\ threads'.out[t].outcome = "no_tip")
                => /\ threads.pc[t] \in TryLines
                   /\ mapMasternodePayeeVotes' = mapMasternodePayeeVotes
                   /\ mapMasternodeBlocks' = mapMasternodeBlocks
                   /\ threads'.out[t].relay = {}
                   /\ threads'.out[t].pushed = {}
                   /\ threads'.out[t].ssc = -1
                   /\ threads'.out[t].result = FALSE
                   /\ Held(threads', t) = {}
                   /\ threads'.events[t] = threads.events[t]]_vars

\* C16 witness: with a vote stored and the block thread holding cs_main, the other
\* handler, the prune, Sync and IsScheduled have all returned for want of the tip
C16_Witness ==
    /\ mapMasternodePayeeVotes # {}
    /\ threads.owner["cs_main"] = "block"
    /\ \E t \in Handlers : threads.out[t].outcome = "no_tip"
    /\ \A t \in {"prune", "sync", "sched"} : threads.out[t].outcome = "no_tip"

\* the thread waits for a lock whose holder waits for a lock, and so on n times:
\* with n the number of threads, the chain of waiting threads closes on itself
RECURSIVE WaitsOnWaiting(_, _)
WaitsOnWaiting(t, n) ==
    /\ Waiting(threads, t)
    /\ n = 0 \/ WaitsOnWaiting(threads.owner[LockAt(threads.pc[t])], n - 1)

\* C20: no set of threads waits for ever: there is never a set of threads each
\* waiting at a LOCK for a lock that a thread of the set holds
C20_NoDeadlock ==
    ~\E t \in Threads : WaitsOnWaiting(t, Cardinality(Threads))

\* C20 witness: the block thread holds cs_main and waits for the tallies lock,
\* which the prune holds when it comes to TRY_LOCK(cs_main); a handler waits for
\* the votes lock
C20_Witness ==
    /\ threads.pc["block"] = "L751"
    /\ Waiting(threads, "block")
    /\ threads.pc["prune"] = "L766"
    /\ \E t \in Handlers : Waiting(threads, t)

---------------------------------------------------------------------------
(* Properties of the inbound handler (checked under SpecInbound) *)

\* the vote the message received stands for
Received == WinnerOf(vRecv.msg, vRecv.env.legacy)

\* the store holds a vote of the voter of w for the height and level of w
Occupied(w) ==
    \E v \in mapMasternodePayeeVotes :
        /\ v.vinMasternode = w.vinMasternode
        /\ v.nBlockHeight = w.nBlockHeight
        /\ v.payeeLevel = w.payeeLevel

\* the registry knows the voter, its protocol is current and its rank is in the top 10
VoterValid(e) ==
    e.known /\ e.protoOk /\ e.rank >= 1 /\ e.rank <= MNPAYMENTS_SIGNATURES_TOTAL

\* h is below tip - 1.25 * n (compared in quarters) or above tip + 20
OutsideWindow(h, tip, n) == 4 * h < 4 * tip - 5 * n - 3 \/ h > tip + 20

\* the handler has run on the message received, past the early returns
Handling == ret'.op = "mnw" /\ ret'.outcome \notin EarlyReturns

\* the first check of the list that the message fails in this state, "admission" if
\* it fails none
FirstFailure(checks) ==
    LET e == vRecv.env
        fails(c) ==
            CASE c = "payee" -> ~e.payeeKnown
              [] c = "dedup" -> Received \in mapMasternodePayeeVotes
              [] c = "window" -> OutsideWindow(vRecv.msg.h, tipHeight, e.nEnabled)
              [] c = "CanVote" -> Occupied(Received)
              [] c = "IsValid" -> ~VoterValid(e)
              [] c = "SignatureValid" -> ~e.sigOk
        failing == {i \in 1..Len(checks) : fails(checks[i])}
    IN  IF failing = {} THEN "admission"
        ELSE checks[CHOOSE i \in failing : \A j \in failing : i <= j]

\* the outcomes of the handler that a failed check ends in
OutcomesOf(check) ==
    CASE check = "payee" -> {"unknown_payee"}
      [] check = "dedup" -> {"already_seen"}
      [] check = "window" -> {"out_of_range"}
      [] check = "CanVote" -> {"already_voted"}
      [] check = "IsValid" -> {"invalid"}
      [] check = "SignatureValid" -> {"bad_signature"}
      [] check = "admission" -> {"added", "not_added"}

\* the handler ends at the first check of the list that fails, with the effects of
\* that check alone: only the validity check and the signature check score the
\* peer, only the payee lookup, an unknown voter and a bad signature fetch from the
\* registry, and only admission changes the store and relays
EndsAtFirstFailure(checks) ==
    LET first == FirstFailure(checks)
    IN  /\ ret'.outcome \in OutcomesOf(first)
        /\ first \notin {"IsValid", "SignatureValid"} => ret'.score = 0
        /\ first \notin {"payee", "IsValid", "SignatureValid"} => ret'.ask = "none"
        /\ first # "admission" =>
              /\ ret'.relay = {}
              /\ UNCHANGED <<mapMasternodePayeeVotes, mapMasternodeBlocks>>

\* C21 (as stated): the checks run in the order payee resolution, dedup, window,
\* CanVote, IsValid, signature, admission, and a vote that fails one is dropped
\* without the effects of a later one
C21_ChecksInStatedOrder ==
    [][Handling => EndsAtFirstFailure(<<"payee", "dedup", "window", "CanVote",
                                        "IsValid", "SignatureValid">>)]_vars

\* C21 (amended): the checks run in the order payee resolution, dedup, window,
\* IsValid, CanVote, signature, admission, and a vote that fails one is dropped
\* without the effects of a later one: a vote of an occupied slot whose voter is
\* not valid is dropped as invalid, with the score and the registry fetch of IsValid
C21_ChecksInCodeOrder ==
    [][Handling => EndsAtFirstFailure(<<"payee", "dedup", "window", "IsValid",
                                        "CanVote", "SignatureValid">>)]_vars
\* a vote of an occupied slot, inside the window and not stored, from a voter ranked
\* beyond 20, has been dropped as invalid and the peer scored 20
C21_Witness ==
    /\ vRecv # NoMessage
    /\ ret.outcome = "invalid"
    /\ ret.score = 20
    /\ Occupied(Received)
    /\ Received \notin mapMasternodePayeeVotes

---------------------------------------------------------------------------
(* Properties of the admission window (checked under SpecWindow) *)

\* the largest integer at most 1.25 * n, and the smallest at least 1.25 * n
Floor125(n) == (5 * n) \div 4
Ceil125(n) == -((-(5 * n)) \div 4)

\* C22 (as stated): a vote for height h is rejected as out of range exactly when
\* h < tip - floor(1.25 * enabled_count) or h > tip + 20
C22_WindowFloor ==
    ret.op = "window" =>
        (ret.outcome = "out_of_range"
            <=> \/ ret.height < tipHeight - Floor125(ret.args.nEnabled)
                \/ ret.height > tipHeight + 20)

\* C22 (amended): a vote for height h is rejected as out of range exactly when
\* h > tip + 20 or h is below tip - 1.25 * enabled_count rounded toward zero: below
\* tip - ceil(1.25 * enabled_count) when that is not negative, below
\* tip - floor(1.25 * enabled_count) otherwise
C22_WindowTruncated ==
    ret.op = "window" =>
        LET n == ret.args.nEnabled
            nFirstBlock == IF tipHeight - Ceil125(n) >= 0 THEN tipHeight - Ceil125(n)
                           ELSE tipHeight - Floor125(n)
        IN  ret.outcome = "out_of_range"
                <=> (ret.height < nFirstBlock \/ ret.height > tipHeight + 20)

\* with 801 enabled masternodes at tip 5000 a vote for 3998 is let in: the stated
\* edge is 3999
C22_Witness ==
    /\ ret.op = "window"
    /\ tipHeight = 5000
    /\ ret.args.nEnabled = 801
    /\ ret.height = 3998
    /\ ret.outcome = "in_range"

\* the handler has run on the message received, past the early returns
Handled == vRecv # NoMessage /\ ret.op = "mnw" /\ ret.outcome \notin EarlyReturns

RankDropped(lo, hi) ==
    /\ ret.outcome = "invalid"
    /\ vRecv.env.known /\ vRecv.env.protoOk
    /\ vRecv.env.rank >= lo /\ vRecv.env.rank <= hi

\* the vote received is not admitted: it is not stored and not relayed
NotAdmitted == Received \notin mapMasternodePayeeVotes /\ ret.relay = {}

\* C24 (as stated): the peer is scored 20 whenever the node is synced and either
\* the signature fails (which also requests a refresh of the voter) or the voter's
\* rank is above 20; a voter ranked in (10, 20] is dropped with no score; a node
\* that is not synced assesses no score; in all these cases the vote is not admitted
C24_SyncedScoresTwenty ==
    Handled =>
        /\ ret.outcome = "bad_signature" =>
              /\ ret.score = IF vRecv.env.fSynced THEN 20 ELSE 0
              /\ ret.ask = "AskForMN"
              /\ NotAdmitted
        /\ RankDropped(MNPAYMENTS_SIGNATURES_TOTAL * 2 + 1, 21) =>
              /\ ret.score = IF vRecv.env.fSynced THEN 20 ELSE 0
              /\ NotAdmitted
        /\ RankDropped(MNPAYMENTS_SIGNATURES_TOTAL + 1, MNPAYMENTS_SIGNATURES_TOTAL * 2) =>
              ret.score = 0 /\ NotAdmitted

\* C24 (amended): a failed signature scores the peer 20 when the node is synced and
\* the try-lock of cs_main succeeds, and requests a refresh of the voter in every
\* case; a rank above 20 scores the peer 20 when the node is synced; a voter ranked
\* in (10, 20] is dropped with no score; a node that is not synced assesses no
\* score; in all these cases the vote is not admitted
C24_SyncedAndLockedScoresTwenty ==
    Handled =>
        /\ ret.outcome = "bad_signature" =>
              /\ ret.score = IF vRecv.env.fSynced /\ vRecv.env.locked THEN 20 ELSE 0
              /\ ret.ask = "AskForMN"
              /\ NotAdmitted
        /\ RankDropped(MNPAYMENTS_SIGNATURES_TOTAL * 2 + 1, 21) =>
              /\ ret.score = IF vRecv.env.fSynced THEN 20 ELSE 0
              /\ NotAdmitted
        /\ RankDropped(MNPAYMENTS_SIGNATURES_TOTAL + 1, MNPAYMENTS_SIGNATURES_TOTAL * 2) =>
              ret.score = 0 /\ NotAdmitted

\* a vote with a bad signature has been dropped on a synced node while cs_main was
\* busy: the voter is asked for, the peer is not scored
C24_Witness ==
    /\ Handled
    /\ ret.outcome = "bad_signature"
    /\ vRecv.env.fSynced
    /\ ~vRecv.env.locked
    /\ ret.score = 0
    /\ ret.ask = "AskForMN"

---------------------------------------------------------------------------
(* Properties of the relay of inbound votes (checked under SpecRelay) *)

\* C25 (as stated, its conclusion): a node relays each vote hash at most once
C25_EachHashRelayedOnce ==
    \A w \in DOMAIN vInventoryToSend : vInventoryToSend[w] <= 1

\* C25 (amended): an inbound vote is relayed only in the handling step that newly
\* admits it to the store; a vote whose hash is stored is marked seen, leaves both
\* tables unchanged and is not relayed: a hash is relayed at most once while its
\* vote stays in the store, and again when the vote was pruned and arrives again
C25_RelayedWhenNewlyAdmitted ==
    [][Handling =>
          /\ ret'.relay # {} =>
                /\ ret'.relay = {Received}
                /\ Received \notin mapMasternodePayeeVotes
                /\ Received \in mapMasternodePayeeVotes'
          /\ vRecv.env.payeeKnown /\ Received \in mapMasternodePayeeVotes =>
                /\ ret'.outcome = "already_seen"
                /\ ret'.seen = {Received}
                /\ ret'.relay = {}
                /\ UNCHANGED <<mapMasternodePayeeVotes, mapMasternodeBlocks>>]_vars

\* a vote that was relayed and pruned has arrived again, and is admitted and
\* relayed again
C25_Witness ==
    /\ Handled
    /\ ret.outcome = "added"
    /\ ret.relay = {Received}
    /\ Received \in DOMAIN vInventoryToSend

---------------------------------------------------------------------------
(* Properties of the prune (checked under SpecRelay) *)

\* CleanPaymentList has run in this step and has read the tip
Cleaning == ret'.op = "CleanPaymentList" /\ ret'.outcome = "cleaned"

\* the prune removes exactly the votes whose height is outside: their sync-seen
\* markers go, the tally of a height goes with its votes, and every other vote
\* and tally stays as it was
RemovesExactly(outside(_)) ==
    /\ mapMasternodePayeeVotes' =
          {v \in mapMasternodePayeeVotes : ~outside(v.nBlockHeight)}
    /\ ret'.unseen = {v \in mapMasternodePayeeVotes : outside(v.nBlockHeight)}
    /\ DOMAIN mapMasternodeBlocks' = {h \in DOMAIN mapMasternodeBlocks : ~outside(h)}
    /\ \A h \in DOMAIN mapMasternodeBlocks' :
          mapMasternodeBlocks'[h] = mapMasternodeBlocks[h]

\* N = max(floor(1.25 * registry size), 1000) for one of the registry sizes
HorizonOfRegistry(N) ==
    \E n \in MnCounts : N = (IF (5 * n) \div 4 > 1000 THEN (5 * n) \div 4 ELSE 1000)

\* C26 (as stated): CleanPaymentList removes exactly the entries whose height is
\* outside the horizon [tip - N, tip + 20], and nothing else
C26_RemovesOutsideHorizon ==
    [][Cleaning =>
          /\ HorizonOfRegistry(ret'.nLimit)
          /\ LET outside(h) == h < tipHeight - ret'.nLimit \/ h > tipHeight + 20
             IN  RemovesExactly(outside)]_vars

\* C26 (amended): CleanPaymentList removes exactly the entries whose height is
\* below tip - N, and nothing else: a vote above tip + 20 stays
C26_RemovesBelowHorizon ==
    [][Cleaning =>
          /\ HorizonOfRegistry(ret'.nLimit)
          /\ LET outside(h) == h < tipHeight - ret'.nLimit
             IN  RemovesExactly(outside)]_vars

\* at tip 5000 with N = 1000 the vote for 3999 has been removed and a vote for
\* 4000 is left, with its tally
C26_Witness ==
    /\ ret.op = "CleanPaymentList"
    /\ ret.outcome = "cleaned"
    /\ tipHeight = 5000
    /\ ret.nLimit = 1000
    /\ \E v \in ret.unseen : v.nBlockHeight = 3999
    /\ 3999 \notin DOMAIN mapMasternodeBlocks
    /\ \E v \in mapMasternodePayeeVotes : v.nBlockHeight = 4000
    /\ 4000 \in DOMAIN mapMasternodeBlocks

---------------------------------------------------------------------------
(* Properties of the stake charge (checked under SpecPay) *)

\* what the payments pays (the payee outputs appended) cost one of k stake outputs:
\* floor(p / k) of each payment p, and for the last stake output the remainders
RECURSIVE StakeShare(_, _, _)
StakeShare(pays, k, isLast) ==
    IF pays = <<>> THEN 0
    ELSE LET p == Head(pays).nValue
         IN  p \div k + (IF isLast THEN p - k * (p \div k) ELSE 0)
               + StakeShare(Tail(pays), k, isLast)

\* C27: on a coinstake whose stake is not a zerocoin mint, with k stake outputs
\* before the first payee output was appended, each payment p appended costs every
\* stake output floor(p / k) and the last stake output the remainder p - k *
\* floor(p / k) on top, with the same k for every tier; with one stake output the
\* payment is subtracted from it in full
C27_SplitStakeCharged ==
    (ret.op = "FillBlockPayee" /\ ret.txBefore.coinstake
        /\ ~IsZerocoinMint(ret.txBefore.vout[2])) =>
        LET before == ret.txBefore.vout
            k == Len(before) - 1
            pays == SubSeq(txNew.vout, k + 2, Len(txNew.vout))
        IN  /\ Len(txNew.vout) >= Len(before)
            /\ \A j \in 1..k :
                  txNew.vout[j + 1].nValue =
                      before[j + 1].nValue - StakeShare(pays, k, j = k)
            /\ k = 1 => txNew.vout[2].nValue = before[2].nValue - SumOut(pays)

\* a stake split over three outputs has paid two tiers or more, and the last stake
\* output has been charged more than the first
C27_Witness ==
    /\ ret.op = "FillBlockPayee"
    /\ ret.txBefore.coinstake
    /\ Len(ret.txBefore.vout) = 4
    /\ Len(txNew.vout) >= 6
    /\ ret.txBefore.vout[4].nValue - txNew.vout[4].nValue
          > ret.txBefore.vout[2].nValue - txNew.vout[2].nValue

---------------------------------------------------------------------------
(* Properties of the block value check (checked under SpecValue) *)

\* C28: a block whose height cannot be resolved from the parent index (nHeight
\* stays 0) is accepted, whatever it mints, the sync state and the sporks
C28_UnknownHeightAccepted ==
    (ret.op = "IsBlockValueValid" /\ ret.value.nHeight = 0) => ret.result = TRUE

\* a tip is there, the parent of the block is not found, the node is synced and the
\* block is no treasury block: minting one unit more than expected is rejected
C28_Rejected ==
    /\ ret.op = "IsBlockValueValid" /\ ret.outcome = "none"
    /\ ret.value.nHeight = 0
    /\ ret.args.fSynced /\ ~ret.args.isTreasury
    /\ ret.value.nMinted = ret.value.nExpectedValue + 1
    /\ ret.result = FALSE

---------------------------------------------------------------------------
(* Properties of the vote producer (checked under SpecProduce) *)

\* C29: ProcessBlock(height) admits votes only if the node is a masternode, its
\* rank at height - 100 is known and at most 10, the budget does not claim the
\* height and the key loads; the votes it relays are exactly the votes it admitted,
\* its own, for the height, at most one per tier; and it sets the last produced
\* height to the height if and only if it produced a vote, so that a call that
\* produced nothing leaves the height open for another call
C29_ProducesWhenEntitled ==
    [][ret'.op = "ProcessBlock" =>
          LET e == vRecv.env
              h == vRecv.msg.nBlockHeight
              added == mapMasternodePayeeVotes' \ mapMasternodePayeeVotes
          IN  /\ mapMasternodePayeeVotes \subseteq mapMasternodePayeeVotes'
              /\ added # {} =>
                    /\ e.fMasterNode
                    /\ e.n >= 1 /\ e.n <= MNPAYMENTS_SIGNATURES_TOTAL
                    /\ ~e.isBudget
                    /\ e.keyOk
              /\ ret'.relay = added
              /\ \A v \in added : v.vinMasternode = ActiveVin /\ v.nBlockHeight = h
              /\ \A v1, v2 \in added : v1.payeeLevel = v2.payeeLevel => v1 = v2
              /\ nLastBlockHeight' = IF added # {} THEN h ELSE nLastBlockHeight
              /\ added = {} => mapMasternodeBlocks' = mapMasternodeBlocks
              /\ ret'.outcome = "already_done" => h <= nLastBlockHeight]_vars

\* a call for a height has produced votes for two tiers: both are stored and
\* relayed, and the height is the last produced one
C29_Witness ==
    /\ vRecv # NoMessage
    /\ ret.op = "ProcessBlock"
    /\ ret.outcome = "produced"
    /\ Cardinality(ret.relay) = 2
    /\ ret.relay \subseteq mapMasternodePayeeVotes
    /\ nLastBlockHeight = vRecv.msg.nBlockHeight

---------------------------------------------------------------------------
(* Properties of the sync push (checked under SpecSync) *)

\* C30: a Sync that obtains the tip pushes the inventory of exactly the stored votes
\* whose height lies in [tip - cap[tier], tip + 20], cap[tier] being floor(1.25 * the
\* enabled count of the vote's tier) capped by count_needed; it then sends one
\* "ssc" message with MASTERNODE_SYNC_MNW and the number pushed; the store is not
\* modified
C30_SyncPushesWindow ==
    [][(ret'.op = "Sync" /\ ret'.outcome = "synced") =>
          LET needed == ret'.args.nCountNeeded
              cap(l) == IF (5 * ret'.args.counts[l]) \div 4 < needed
                        THEN (5 * ret'.args.counts[l]) \div 4 ELSE needed
              inWindow == {v \in mapMasternodePayeeVotes :
                              /\ v.nBlockHeight >= tipHeight - cap(v.payeeLevel)
                              /\ v.nBlockHeight <= tipHeight + 20}
          IN  /\ ret'.value.pushed = inWindow
              /\ ret'.value.messages =
                    <<<<"ssc", "MASTERNODE_SYNC_MNW", Cardinality(inWindow)>>>>
              /\ UNCHANGED <<mapMasternodePayeeVotes, mapMasternodeBlocks>>]_vars

\* a peer in need of 800 has been served at tip 5000 while the votes for 4000 and
\* 5020 were stored: the vote for 5020 is pushed, the vote for 4000 is not, and the
\* count sent is 1
C30_Witness ==
    /\ ret.op = "Sync"
    /\ ret.outcome = "synced"
    /\ tipHeight = 5000
    /\ ret.args.nCountNeeded = 800
    /\ \E v \in mapMasternodePayeeVotes \ ret.value.pushed : v.nBlockHeight = 4000
    /\ \E v \in ret.value.pushed : v.nBlockHeight = 5020
    /\ ret.value.messages = <<<<"ssc", "MASTERNODE_SYNC_MNW", 1>>>>

====
